---------------------------- MODULE Spec2Model ----------------------------
(***************************************************************************)
(* State-machine model of the GPU resource and frame optimisation layer of *)
(* VelocityGL: the buffer pool sub-allocator and the streaming ring        *)
(* allocator (buffer/buffer_pool.c), the draw-call batcher                 *)
(* (buffer/draw_batcher.c), the shader binary cache                        *)
(* (shader/shader_cache.c) and the resolution scaler                       *)
(* (optimize/resolution_scaler.c).                                         *)
(*                                                                         *)
(* Each subsystem has its own specification (SpecPool, SpecStream,         *)
(* SpecBatcher, SpecCache and SpecCacheDisk, SpecScaler) over the shared   *)
(* variable tuple; the variables of the other subsystems stay unchanged.   *)
(***************************************************************************)
EXTENDS Integers, Sequences, FiniteSets, TLC

(***************************************************************************)
(* Bounds of the model.                                                    *)
(***************************************************************************)
\* size_t is modelled with SizeBits bits (arithmetic is done modulo 2^SizeBits).
SizeBits == 24
\* successful bufferPoolAlloc calls explored per pool (caps the counters).
MaxAllocs == 5
\* the batch-key hash is computed on its low HashBits bits.
HashBits == 16
\* draw commands submitted per frame.
MaxSubmits == 5
\* slots of the shader cache table; stands for MAX_CACHED_PROGRAMS (256).
MaxEntries == 2
\* largest reading of the millisecond clock.
MaxClock == 2
\* shaderCacheGetProgram calls counted by hits + misses before a clear.
MaxGets == 2
\* shaderCacheInit calls (process runs sharing one cache directory).
MaxInits == 2
\* calls made on the resolution scaler after resolutionScalerInit.
MaxScalerCalls == 5
\* bufferStreamBeginFrame calls, and bufferStreamEndFrame calls, explored.
MaxFrames == 5
\* successful bufferStreamAlloc calls explored between two offset resets.
MaxStreamAllocs == 3
\* resolutionScalerRecordFrameTime calls of a run of slow frames.
FeedSamples == 60
\* bufferPoolAlloc calls made or under way when two threads call.
MaxThreadAllocs == 4
\* shaderCacheStoreProgram calls made by each of two threads.
MaxThreadStores == 2
\* bufferPoolCreate calls made by each of two threads.
MaxThreadCreates == 2
\* velocityBeginFrame, velocityEndFrame, velocitySwapBuffers and
\* resolutionScalerSetEnabled calls made after resolutionScalerInit.
MaxFrameCalls == 9
\* slots of the table one shaderCacheEvict call is followed on.
EvictSlots == 3

SizeMod == 2 ^ SizeBits
SIZE_MAX == SizeMod - 1

(***************************************************************************)
(* Program constants.                                                      *)
(***************************************************************************)
BUFFER_ALIGNMENT == 256
MAX_BUFFER_POOLS == 8
\* low bits of the FNV-1a offset basis 14695981039346656037 = 0x...84222325
FNV_OFFSET_LOW == 8997
\* low bits of the FNV prime 1099511628211 = 2^40 + 435
FNV_PRIME_LOW == 435
GL_TRIANGLES == 4
\* 0x56454C53
SHADER_CACHE_MAGIC == 1447382099
SHADER_CACHE_VERSION == 1
MAX_CACHED_PROGRAMS == MaxEntries
\* 0.25f and 2.0f, in thousandths
SCALER_MIN_SCALE == 250
SCALER_MAX_SCALE == 2000
SCALER_HISTORY_SIZE == 60

\* sizes passed to bufferPoolCreate
PoolSizes == {1024, 1100, 1048576}
\* sizes passed to bufferPoolAlloc
ReqSizes == {0, 1, 300, 600, SIZE_MAX}
\* the sizes passed to bufferPoolAlloc on a pool of the given size: the
\* megabyte pool is explored with requests of 300 and 300000 bytes
ReqSizesOf(totalSize) == IF totalSize = 1048576 THEN {0, 300, 300000} ELSE ReqSizes

VARIABLES
    \* ---- buffer pool (buffer_pool.c) ----
    pool,       \* BufferPool: totalSize, usedSize, freeSize, blocks (the linked list in list order), counters
    mgr,        \* BufferManagerContext totals: totalAllocated, totalUsed, totalAllocations
    handles,    \* the live BufferAllocation handles owned by the caller
    poolOp,     \* the last pool call: its arguments, the block list it started from and its result
    threads,    \* per calling thread: where it is in bufferPoolAlloc / bufferPoolFree, and its locals
    lock,       \* g_bufMutex: the thread holding it (0: unlocked)
    poolTable,  \* BufferManagerContext.pools: poolCount, the slots bufferPoolCreate wrote, the indices it returned
    \* ---- streaming ring allocator (buffer_pool.c) ----
    stream,     \* BufferManagerContext: streamBufferSize, streamOffset, streamFences, currentFrame
    fenceLog,   \* every fence glFenceSync created, in order: the slice written before it, the frame, waited or not
    streamFrame,\* begin/end calls so far, whether they alternated, the regions handed out since the last offset reset
    streamOp,   \* the last stream call: its arguments and its result
    \* ---- draw batcher (draw_batcher.c) ----
    batcher,    \* DrawBatcherContext: commands (commandCount is its length), limits, switches, counters
    currentKey, \* g_currentKey
    frame,      \* the frame in progress: phase, commands submitted since beginFrame, GL draw calls issued per command,
                \* the command buffer as the last flush scanned it
    lastFlush,  \* the batches the last drawBatcherFlush executed, each with the commands it ran
    \* ---- shader cache (shader_cache.c) ----
    cache,      \* *g_shaderCache (allocated = FALSE: g_shaderCache is NULL)
    disk,       \* the file shader_cache.bin in the cache directory
    wrapperCtx, \* g_wrapperCtx of the running process: the gpuCaps strings the fingerprint is hashed from
    now,        \* the last reading of the monotonic millisecond clock
    inits,      \* shaderCacheInit calls so far
    cacheOp,    \* the last cache call: its key, binary length, the slots it evicted in order, its outcome
    cacheThreads, \* per thread calling the cache: where it is in its call, and its locals
    hashOp,     \* two source hashes and the program keys computed from them in both orders
    evictRun,   \* a shaderCacheEvict call in progress: its argument, the table, its position in the loop
    \* ---- resolution scaler (resolution_scaler.c) ----
    scaler,     \* *g_scaler
    scalerOp,   \* the last scaler call
    scalerCalls,\* scaler calls so far
    glFrame     \* the frame as the GL sees it: framebuffer bound, size reported, target rendered into and sampled

poolVars == <<pool, mgr, handles, poolOp>>
threadVars == <<threads, lock>>
streamVars == <<stream, fenceLog, streamFrame, streamOp>>
batcherVars == <<batcher, currentKey, frame, lastFlush>>
cacheVars == <<cache, disk, wrapperCtx, now, inits, cacheOp>>
scalerVars == <<scaler, scalerOp, scalerCalls>>

vars == <<pool, mgr, handles, poolOp, threads, lock, poolTable, stream, fenceLog, streamFrame, streamOp, batcher, currentKey, frame, lastFlush,
          cache, disk, wrapperCtx, now, inits, cacheOp, cacheThreads, hashOp, evictRun,
          scaler, scalerOp, scalerCalls, glFrame>>

\* what a step of one subsystem leaves alone
\* what a pool call made from its entry to its return leaves alone
notPoolVars == <<threadVars, streamVars, batcherVars, cacheVars, cacheThreads, hashOp, scalerVars, poolTable, evictRun, glFrame>>
\* what a step of a thread inside a pool call leaves alone
notPoolThreadVars == <<streamVars, batcherVars, cacheVars, cacheThreads, hashOp, scalerVars, poolTable, evictRun, glFrame>>
notStreamVars == <<poolVars, threadVars, batcherVars, cacheVars, cacheThreads, hashOp, scalerVars, poolTable, evictRun, glFrame>>
notBatcherVars == <<poolVars, threadVars, streamVars, cacheVars, cacheThreads, hashOp, scalerVars, poolTable, evictRun, glFrame>>
\* what a call on the cache made from its entry to its return leaves alone
notCacheVars == <<poolVars, threadVars, streamVars, batcherVars, scalerVars, cacheThreads, hashOp, poolTable, evictRun, glFrame>>
\* what a step of a thread inside a cache call leaves alone
notCacheThreadVars == <<poolVars, threadVars, streamVars, batcherVars, scalerVars, disk, wrapperCtx, inits, hashOp, poolTable, evictRun, glFrame>>
notScalerVars == <<poolVars, threadVars, streamVars, batcherVars, cacheVars, cacheThreads, hashOp, poolTable, evictRun, glFrame>>

\* no bufferPoolCreate call followed: the pool table of the other models
NoPoolTable == [poolCount |-> 0, written |-> {}, returned |-> <<>>]
\* no shaderCacheEvict call followed
NoEvictRun == [pc |-> "none"]
\* no frame followed
NoGlFrame == [phase |-> "none"]

(***************************************************************************)
(* Helpers on sequences.                                                   *)
(***************************************************************************)
RECURSIVE SumSizes(_)
SumSizes(bs) == IF bs = <<>> THEN 0 ELSE Head(bs).size + SumSizes(Tail(bs))

\* s with element e inserted right after position i
InsertAfter(s, i, e) == SubSeq(s, 1, i) \o <<e>> \o SubSeq(s, i + 1, Len(s))

\* s without its element at position i
RemoveAt(s, i) == SubSeq(s, 1, i - 1) \o SubSeq(s, i + 1, Len(s))

(***************************************************************************)
(* buffer_pool.c                                                           *)
(***************************************************************************)

\* (size + alignment - 1) & ~(alignment - 1) on size_t; alignment is a power of two
alignSize(size, alignment) ==
    LET t == (size + alignment - 1) % SizeMod
    IN  t - (t % alignment)

\* bufferPoolCreate: one free block spanning the pool
NewPool(size) ==
    [totalSize |-> size, usedSize |-> 0, freeSize |-> size,
     blocks |-> << [offset |-> 0, size |-> size, free |-> TRUE] >>,
     blockCount |-> 1, allocCount |-> 0, freeCount |-> 0]

\* the best-fit loop of bufferPoolAlloc, from list position i with candidate best
\* (0: none yet); stops at the first exact fit
RECURSIVE FindBestFrom(_, _, _, _)
FindBestFrom(blocks, alignedSize, i, best) ==
    IF i > Len(blocks) THEN best
    ELSE IF blocks[i].free /\ blocks[i].size >= alignedSize
         THEN IF best = 0 \/ blocks[i].size < blocks[best].size
              THEN IF blocks[i].size = alignedSize
                   THEN i
                   ELSE FindBestFrom(blocks, alignedSize, i + 1, i)
              ELSE FindBestFrom(blocks, alignedSize, i + 1, best)
         ELSE FindBestFrom(blocks, alignedSize, i + 1, best)

\* mutant of FindBestBlock: first fit, the first free block that is large enough
FindBestBlock_FirstFit(blocks, alignedSize) ==
    LET fits == {i \in 1..Len(blocks) : blocks[i].free /\ blocks[i].size >= alignedSize}
    IN  IF fits = {} THEN 0 ELSE CHOOSE i \in fits : \A j \in fits : i <= j

FindBestBlock(blocks, alignedSize) == FindBestFrom(blocks, alignedSize, 1, 0)

\* mutant of SplitBlock: the block split keeps its size
SplitBlock_KeepsSize(blocks, b, alignedSize) ==
    IF blocks[b].size > (alignedSize + BUFFER_ALIGNMENT) % SizeMod
    THEN LET newBlock == [offset |-> (blocks[b].offset + alignedSize) % SizeMod,
                          size   |-> blocks[b].size - alignedSize,
                          free   |-> TRUE]
         IN  InsertAfter(blocks, b, newBlock)
    ELSE blocks

\* "Split block if necessary": the remainder becomes a free block right after b
SplitBlock(blocks, b, alignedSize) ==
    IF blocks[b].size > (alignedSize + BUFFER_ALIGNMENT) % SizeMod
    THEN LET newBlock == [offset |-> (blocks[b].offset + alignedSize) % SizeMod,
                          size   |-> blocks[b].size - alignedSize,
                          free   |-> TRUE]
         IN  InsertAfter([blocks EXCEPT ![b].size = alignedSize], b, newBlock)
    ELSE blocks

\* mutant of CoalesceNext: unlinks the next block without adding its size
CoalesceNext_DropsSize(blocks, i) ==
    IF i < Len(blocks) /\ blocks[i + 1].free
    THEN RemoveAt(blocks, i + 1)
    ELSE blocks

\* "Coalesce with next block" of bufferPoolFree, for the block at position i
CoalesceNext(blocks, i) ==
    IF i < Len(blocks) /\ blocks[i + 1].free
    THEN RemoveAt([blocks EXCEPT ![i].size = (blocks[i].size + blocks[i + 1].size) % SizeMod], i + 1)
    ELSE blocks

\* mutant of CoalescePrev: never merges with the previous block
CoalescePrev_Skipped(blocks, i) == blocks

\* "Coalesce with previous block" of bufferPoolFree, for the block at position i
CoalescePrev(blocks, i) ==
    IF i > 1 /\ blocks[i - 1].free
    THEN RemoveAt([blocks EXCEPT ![i - 1].size = (blocks[i - 1].size + blocks[i].size) % SizeMod], i)
    ELSE blocks

\* the search loop of bufferPoolFree: first block whose offset is the handle's (0: none)
RECURSIVE FindByOffsetFrom(_, _, _)
FindByOffsetFrom(blocks, offset, i) ==
    IF i > Len(blocks) THEN 0
    ELSE IF blocks[i].offset = offset THEN i
    ELSE FindByOffsetFrom(blocks, offset, i + 1)

FindBlockByOffset(blocks, offset) == FindByOffsetFrom(blocks, offset, 1)

\* the variables of the pool while another subsystem is explored
PoolUnused ==
    /\ pool = NewPool(0)
    /\ mgr = [totalAllocated |-> 0]
    /\ handles = {}
    /\ poolOp = [op |-> "none"]
    /\ threads = <<>>
    /\ lock = 0
    /\ poolTable = NoPoolTable

InitPool ==
    /\ \E size \in PoolSizes :
          /\ pool = NewPool(size)
          /\ mgr = [totalAllocated |-> size, totalUsed |-> 0, totalAllocations |-> 0]
    /\ handles = {}
    /\ poolOp = [op |-> "create", size |-> 0, aligned |-> 0, pre |-> <<>>, chosen |-> 0, ok |-> TRUE]
    /\ threads = <<>>
    /\ lock = 0
    /\ poolTable = NoPoolTable

\* bufferPoolAlloc(poolIndex, size) returning NULL: size == 0, or no block fits
BufferPoolAllocFail(size) ==
    LET alignedSize == alignSize(size, BUFFER_ALIGNMENT)
        best == FindBestBlock(pool.blocks, alignedSize)
    IN  /\ size = 0 \/ best = 0
        /\ poolOp' = [op |-> "alloc", size |-> size, aligned |-> alignedSize,
                      pre |-> pool.blocks, chosen |-> 0, ok |-> FALSE]
        /\ UNCHANGED <<pool, mgr, handles>>
        /\ UNCHANGED notPoolVars

\* bufferPoolAlloc(poolIndex, size) returning a handle
BufferPoolAllocOk(size) ==
    LET alignedSize == alignSize(size, BUFFER_ALIGNMENT)
        best == FindBestBlock(pool.blocks, alignedSize)
        split == SplitBlock(pool.blocks, best, alignedSize)
        blocks2 == [split EXCEPT ![best].free = FALSE]
        got == blocks2[best].size
    IN  /\ size # 0 /\ best # 0
        /\ pool.allocCount < MaxAllocs
        /\ pool' = [pool EXCEPT !.blocks = blocks2,
                                !.blockCount = Len(blocks2),
                                !.usedSize = (@ + got) % SizeMod,
                                !.freeSize = (@ - got) % SizeMod,
                                !.allocCount = @ + 1]
        /\ mgr' = [mgr EXCEPT !.totalUsed = (@ + got) % SizeMod,
                              !.totalAllocations = @ + 1]
        /\ handles' = handles \cup {[id |-> mgr.totalAllocations + 1,
                                     offset |-> blocks2[best].offset,
                                     size |-> size,
                                     alignedSize |-> got]}
        /\ poolOp' = [op |-> "alloc", size |-> size, aligned |-> alignedSize,
                      pre |-> pool.blocks, chosen |-> best, ok |-> TRUE]
        /\ UNCHANGED notPoolVars

\* bufferPoolFree(alloc) for a live handle
BufferPoolFree(h) ==
    LET i == FindBlockByOffset(pool.blocks, h.offset)
    IN  /\ h \in handles
        /\ handles' = handles \ {h}
        /\ IF i = 0
           THEN UNCHANGED <<pool, mgr>>
           ELSE LET sz == pool.blocks[i].size
                    freed == [pool.blocks EXCEPT ![i].free = TRUE]
                    merged1 == CoalesceNext(freed, i)
                    merged2 == CoalescePrev(merged1, i)
                IN  /\ pool' = [pool EXCEPT !.blocks = merged2,
                                            !.blockCount = Len(merged2),
                                            !.usedSize = (@ - sz) % SizeMod,
                                            !.freeSize = (@ + sz) % SizeMod,
                                            !.freeCount = @ + 1]
                    /\ mgr' = [mgr EXCEPT !.totalUsed = (@ - sz) % SizeMod]
        /\ poolOp' = [op |-> "free", size |-> h.size, aligned |-> h.alignedSize,
                      pre |-> pool.blocks, chosen |-> i, ok |-> TRUE]
        /\ UNCHANGED notPoolVars

\* the calls of one thread, each from its entry to its return
NextPool ==
    \/ \E size \in ReqSizesOf(pool.totalSize) : BufferPoolAllocOk(size)
    \/ \E size \in ReqSizesOf(pool.totalSize) : BufferPoolAllocFail(size)
    \/ \E h \in handles : BufferPoolFree(h)

(***************************************************************************)
(* buffer_pool.c: bufferPoolAlloc and bufferPoolFree called by two threads. *)
(*                                                                         *)
(* A call is a sequence of steps of its thread: the argument check, taking *)
(* g_bufMutex, the search loop, the update of the list and the counters,   *)
(* and the release of the mutex.  Steps of the two threads interleave.     *)
(***************************************************************************)

Threads == {1, 2}
\* sizes passed to bufferPoolCreate and bufferPoolAlloc when two threads call
ThreadPoolSizes == {1024}
ThreadReqSizes == {0, 1, 300, SIZE_MAX}

IdleThread ==
    [pc |-> "idle", size |-> 0, aligned |-> 0, offset |-> 0, block |-> 0, seen |-> <<>>]

\* pthread_mutex_lock(&g_bufMutex) returns only when no thread holds the mutex
LockFree(holder) == holder = 0

InitPoolThreads ==
    /\ \E size \in ThreadPoolSizes :
          /\ pool = NewPool(size)
          /\ mgr = [totalAllocated |-> size, totalUsed |-> 0, totalAllocations |-> 0]
    /\ handles = {}
    /\ poolOp = [op |-> "create", size |-> 0, aligned |-> 0, pre |-> <<>>, chosen |-> 0, ok |-> TRUE]
    /\ threads = [t \in Threads |-> IdleThread]
    /\ lock = 0
    /\ poolTable = NoPoolTable

\* thread t enters bufferPoolAlloc(poolIndex, size): size == 0 returns NULL at once
ThreadAllocCall(t, size) ==
    /\ threads[t].pc = "idle"
    /\ pool.allocCount + Cardinality({u \in Threads : threads[u].pc \in
                                        {"alloc_lock", "alloc_search", "alloc_update"}})
          < MaxThreadAllocs
    /\ IF size = 0
       THEN /\ poolOp' = [op |-> "alloc", size |-> size, aligned |-> 0,
                          pre |-> pool.blocks, chosen |-> 0, ok |-> FALSE]
            /\ UNCHANGED threads
       ELSE /\ threads' = [threads EXCEPT ![t] = [IdleThread EXCEPT !.pc = "alloc_lock",
                                                                   !.size = size]]
            /\ UNCHANGED poolOp
    /\ UNCHANGED <<pool, mgr, handles, lock>>
    /\ UNCHANGED notPoolThreadVars

\* thread t enters bufferPoolFree(alloc) with a live handle, which it gives up
ThreadFreeCall(t, h) ==
    /\ threads[t].pc = "idle"
    /\ h \in handles
    /\ handles' = handles \ {h}
    /\ threads' = [threads EXCEPT ![t] = [IdleThread EXCEPT !.pc = "free_lock",
                                                            !.size = h.size,
                                                            !.aligned = h.alignedSize,
                                                            !.offset = h.offset]]
    /\ UNCHANGED <<pool, mgr, poolOp, lock>>
    /\ UNCHANGED notPoolThreadVars

\* pthread_mutex_lock(&g_bufMutex) of either function returns in thread t
ThreadLock(t) ==
    /\ threads[t].pc \in {"alloc_lock", "free_lock"}
    /\ LockFree(lock)
    /\ lock' = t
    /\ threads' = [threads EXCEPT ![t].pc = IF @ = "alloc_lock" THEN "alloc_search"
                                            ELSE "free_search"]
    /\ UNCHANGED <<pool, mgr, handles, poolOp>>
    /\ UNCHANGED notPoolThreadVars

\* bufferPoolAlloc in thread t: alignSize and the best-fit loop; without a
\* block the call unlocks and returns NULL
ThreadAllocSearch(t) ==
    LET alignedSize == alignSize(threads[t].size, BUFFER_ALIGNMENT)
        best == FindBestBlock(pool.blocks, alignedSize)
    IN  /\ threads[t].pc = "alloc_search"
        /\ IF best = 0
           THEN /\ threads' = [threads EXCEPT ![t] = IdleThread]
                /\ lock' = IF lock = t THEN 0 ELSE lock
                /\ poolOp' = [op |-> "alloc", size |-> threads[t].size, aligned |-> alignedSize,
                              pre |-> pool.blocks, chosen |-> 0, ok |-> FALSE]
           ELSE /\ threads' = [threads EXCEPT ![t].pc = "alloc_update",
                                              ![t].aligned = alignedSize,
                                              ![t].block = best,
                                              ![t].seen = pool.blocks]
                /\ UNCHANGED <<lock, poolOp>>
        /\ UNCHANGED <<pool, mgr, handles>>
        /\ UNCHANGED notPoolThreadVars

\* bufferPoolAlloc in thread t: split of bestBlock, the counters, the handle
ThreadAllocUpdate(t) ==
    LET best == threads[t].block
        alignedSize == threads[t].aligned
    IN  /\ threads[t].pc = "alloc_update"
        \* bestBlock is a pointer: the model follows it only while the node it
        \* points to is still in the list
        /\ best <= Len(pool.blocks)
        /\ LET split == SplitBlock(pool.blocks, best, alignedSize)
               blocks2 == [split EXCEPT ![best].free = FALSE]
               got == blocks2[best].size
           IN  /\ pool' = [pool EXCEPT !.blocks = blocks2,
                                       !.blockCount = Len(blocks2),
                                       !.usedSize = (@ + got) % SizeMod,
                                       !.freeSize = (@ - got) % SizeMod,
                                       !.allocCount = @ + 1]
               /\ mgr' = [mgr EXCEPT !.totalUsed = (@ + got) % SizeMod,
                                     !.totalAllocations = @ + 1]
               /\ handles' = handles \cup {[id |-> mgr.totalAllocations + 1,
                                            offset |-> blocks2[best].offset,
                                            size |-> threads[t].size,
                                            alignedSize |-> got]}
        /\ poolOp' = [op |-> "alloc", size |-> threads[t].size, aligned |-> alignedSize,
                      pre |-> pool.blocks, chosen |-> best, ok |-> TRUE]
        /\ threads' = [threads EXCEPT ![t].pc = "unlock"]
        /\ UNCHANGED lock
        /\ UNCHANGED notPoolThreadVars

\* bufferPoolFree in thread t: the search loop
ThreadFreeSearch(t) ==
    /\ threads[t].pc = "free_search"
    /\ threads' = [threads EXCEPT ![t].pc = "free_update",
                                  ![t].block = FindBlockByOffset(pool.blocks, threads[t].offset),
                                  ![t].seen = pool.blocks]
    /\ UNCHANGED <<pool, mgr, handles, poolOp, lock>>
    /\ UNCHANGED notPoolThreadVars

\* bufferPoolFree in thread t: the block is marked free and coalesced
ThreadFreeUpdate(t) ==
    LET i == threads[t].block
    IN  /\ threads[t].pc = "free_update"
        /\ i <= Len(pool.blocks)
        /\ IF i = 0
           THEN UNCHANGED <<pool, mgr>>
           ELSE LET sz == pool.blocks[i].size
                    freed == [pool.blocks EXCEPT ![i].free = TRUE]
                    merged1 == CoalesceNext(freed, i)
                    merged2 == CoalescePrev(merged1, i)
                IN  /\ pool' = [pool EXCEPT !.blocks = merged2,
                                            !.blockCount = Len(merged2),
                                            !.usedSize = (@ - sz) % SizeMod,
                                            !.freeSize = (@ + sz) % SizeMod,
                                            !.freeCount = @ + 1]
                    /\ mgr' = [mgr EXCEPT !.totalUsed = (@ - sz) % SizeMod]
        /\ poolOp' = [op |-> "free", size |-> threads[t].size, aligned |-> threads[t].aligned,
                      pre |-> pool.blocks, chosen |-> i, ok |-> TRUE]
        /\ threads' = [threads EXCEPT ![t].pc = "unlock"]
        /\ UNCHANGED <<handles, lock>>
        /\ UNCHANGED notPoolThreadVars

\* pthread_mutex_unlock(&g_bufMutex) and the return, in thread t
ThreadUnlock(t) ==
    /\ threads[t].pc = "unlock"
    /\ lock' = IF lock = t THEN 0 ELSE lock
    /\ threads' = [threads EXCEPT ![t] = IdleThread]
    /\ UNCHANGED <<pool, mgr, handles, poolOp>>
    /\ UNCHANGED notPoolThreadVars

NextPoolThreads ==
    \E t \in Threads :
        \/ \E size \in ThreadReqSizes : ThreadAllocCall(t, size)
        \/ \E h \in handles : ThreadFreeCall(t, h)
        \/ ThreadLock(t)
        \/ ThreadAllocSearch(t)
        \/ ThreadAllocUpdate(t)
        \/ ThreadFreeSearch(t)
        \/ ThreadFreeUpdate(t)
        \/ ThreadUnlock(t)

(***************************************************************************)
(* buffer_pool.c: bufferPoolCreate called by two threads.                  *)
(*                                                                         *)
(* The call tests poolCount before it takes g_bufMutex and reads poolCount *)
(* again, for the index of the new pool, after it has taken it.  The test  *)
(* is a read that no lock orders against the increment by the other        *)
(* thread: it yields the current value or an earlier one that the thread   *)
(* has not yet been synchronised past.                                     *)
(***************************************************************************)

\* pools created, one call after the other, before the two threads start
PoolsCreatedBefore == {0, 6, 7, MAX_BUFFER_POOLS}

\* pc: where the thread is in bufferPoolCreate; poolIndex: its local; known:
\* poolCount when the thread last held the mutex; creates: calls it has made
IdleCreator(known) == [pc |-> "idle", poolIndex |-> 0, known |-> known, creates |-> 0]

InitPoolCreate ==
    /\ \E n \in PoolsCreatedBefore :
          /\ poolTable = [poolCount |-> n, written |-> 0..(n - 1), returned |-> <<>>]
          /\ threads = [t \in Threads |-> IdleCreator(n)]
    /\ lock = 0
    /\ pool = NewPool(0)
    /\ mgr = [totalAllocated |-> 0]
    /\ handles = {}
    /\ poolOp = [op |-> "none"]

\* what a step of a thread inside bufferPoolCreate leaves alone
notPoolCreateVars ==
    <<poolVars, streamVars, batcherVars, cacheVars, cacheThreads, hashOp, evictRun, scalerVars, glFrame>>

\* entry of bufferPoolCreate: the test of poolCount against MAX_BUFFER_POOLS,
\* made before the mutex is taken; -1 is returned when it fails
CreateCall(t) ==
    /\ threads[t].pc = "idle"
    /\ threads[t].creates < MaxThreadCreates
    /\ \E seen \in threads[t].known..poolTable.poolCount :
          IF seen >= MAX_BUFFER_POOLS
          THEN /\ threads' = [threads EXCEPT ![t].creates = @ + 1]
               /\ poolTable' = [poolTable EXCEPT !.returned = Append(@, -1)]
          ELSE /\ threads' = [threads EXCEPT ![t].pc = "checked", ![t].creates = @ + 1]
               /\ UNCHANGED poolTable
    /\ UNCHANGED lock
    /\ UNCHANGED notPoolCreateVars

\* pthread_mutex_lock(&g_bufMutex)
CreateLock(t) ==
    /\ threads[t].pc = "checked"
    /\ lock = 0
    /\ lock' = t
    /\ threads' = [threads EXCEPT ![t].pc = "locked"]
    /\ UNCHANGED poolTable
    /\ UNCHANGED notPoolCreateVars

\* poolIndex = poolCount; the fields of pools[poolIndex] are written
CreateWriteSlot(t) ==
    /\ threads[t].pc = "locked"
    /\ threads' = [threads EXCEPT ![t].pc = "written", ![t].poolIndex = poolTable.poolCount]
    /\ poolTable' = [poolTable EXCEPT !.written = @ \cup {poolTable.poolCount}]
    /\ UNCHANGED lock
    /\ UNCHANGED notPoolCreateVars

\* g_bufMgr->poolCount++, pthread_mutex_unlock, return poolIndex
CreateCountAndReturn(t) ==
    /\ threads[t].pc = "written"
    /\ poolTable' = [poolTable EXCEPT !.poolCount = @ + 1,
                                      !.returned = Append(@, threads[t].poolIndex)]
    /\ threads' = [threads EXCEPT ![t].pc = "idle", ![t].known = poolTable.poolCount + 1]
    /\ lock' = 0
    /\ UNCHANGED notPoolCreateVars

NextPoolCreate ==
    \E t \in Threads :
        \/ CreateCall(t)
        \/ CreateLock(t)
        \/ CreateWriteSlot(t)
        \/ CreateCountAndReturn(t)

(***************************************************************************)
(* buffer_pool.c: the streaming ring allocator.                            *)
(*                                                                         *)
(* streamFences[f] is held as the position of the fence in fenceLog        *)
(* (0: NULL); the slots are those of frame indices 0, 1, 2.                *)
(***************************************************************************)

\* sizes of the stream buffer (poolSize of bufferManagerInit): one a multiple
\* of 3 * BUFFER_ALIGNMENT, one, like the megabyte sizes of the configuration,
\* not a multiple of 3
StreamSizes == {3072, 4096}
\* sizes passed to bufferStreamAlloc
StreamReqSizes == {1, 300, SIZE_MAX - 511, SIZE_MAX}
\* what glClientWaitSync returns for the awaited fence
WaitResults == {"GL_CONDITION_SATISFIED", "GL_TIMEOUT_EXPIRED", "GL_WAIT_FAILED"}

NoStreamOp ==
    [op |-> "none", size |-> 0, aligned |-> 0, offset |-> 0, ok |-> FALSE,
     waited |-> 0, result |-> "none"]

\* the stream fields of the zeroed BufferManagerContext with its stream buffer
NewStream(streamSize) ==
    [streamBufferSize |-> streamSize, streamOffset |-> 0,
     streamFences |-> <<0, 0, 0>>, currentFrame |-> 0]

\* frameSize = streamBufferSize / 3
StreamFrameSize(s) == s.streamBufferSize \div 3
\* the start of the slice of frame index f: f * frameSize
StreamFrameStart(s, f) == (f * StreamFrameSize(s)) % SizeMod

\* a begin-frame that always waits on the slot of frame index 0
fenceIndex_AlwaysFirst(currentFrame) == 0

\* a begin-frame that waits on the slot of the slice it is about to write
fenceIndex_OwnSlice(currentFrame) == currentFrame

\* fenceIndex of bufferStreamBeginFrame
fenceIndex(currentFrame) == (currentFrame + 1) % 3

\* a begin-frame that gives the frame up when the wait times out
StreamAfterBegin_AbortsOnTimeout(s, result) ==
    IF result = "GL_TIMEOUT_EXPIRED" THEN s
    ELSE [s EXCEPT !.streamFences[fenceIndex(s.currentFrame) + 1] = 0,
                   !.streamOffset = StreamFrameStart(s, s.currentFrame)]

\* the stream fields after bufferStreamBeginFrame, result being what the wait
\* returned: the awaited slot is emptied and the offset reset whatever it was
StreamAfterBegin(s, result) ==
    [s EXCEPT !.streamFences[fenceIndex(s.currentFrame) + 1] = 0,
              !.streamOffset = StreamFrameStart(s, s.currentFrame)]

\* the stream fields after bufferStreamEndFrame created the given fence
StreamAfterEnd(s, fence) ==
    [s EXCEPT !.streamFences[s.currentFrame + 1] = fence,
              !.currentFrame = (s.currentFrame + 1) % 3]

\* the variables of the stream allocator while another subsystem is explored
StreamUnused ==
    /\ stream = NewStream(0)
    /\ fenceLog = <<>>
    /\ streamFrame = [begins |-> 0]
    /\ streamOp = [op |-> "none"]

\* after bufferManagerInit(poolSize)
InitStream ==
    /\ \E size \in StreamSizes : stream = NewStream(size)
    /\ fenceLog = <<>>
    /\ streamFrame = [begins |-> 0, ends |-> 0, alternating |-> TRUE, last |-> "none",
                      regions |-> <<>>]
    /\ streamOp = NoStreamOp

\* bufferStreamBeginFrame; result: what glClientWaitSync returns when the
\* awaited slot holds a fence
BufferStreamBeginFrame(result) ==
    LET slot == fenceIndex(stream.currentFrame) + 1
        fence == stream.streamFences[slot]
    IN  /\ streamFrame.begins < MaxFrames
        /\ fence = 0 => result = "GL_CONDITION_SATISFIED"
        /\ stream' = StreamAfterBegin(stream, result)
        /\ fenceLog' = IF fence = 0 THEN fenceLog
                       ELSE [fenceLog EXCEPT ![fence].waited = TRUE]
        /\ streamFrame' = [streamFrame EXCEPT
                             !.begins = @ + 1,
                             !.alternating = @ /\ streamFrame.last # "begin",
                             !.last = "begin",
                             !.regions = <<>>]
        /\ streamOp' = [NoStreamOp EXCEPT
                          !.op = "begin", !.ok = TRUE, !.waited = fence,
                          !.result = IF fence = 0 THEN "none" ELSE result]
        /\ UNCHANGED notStreamVars

\* bufferStreamEndFrame
BufferStreamEndFrame ==
    /\ streamFrame.ends < MaxFrames
    /\ fenceLog' = Append(fenceLog, [slice |-> stream.currentFrame,
                                     frame |-> streamFrame.begins,
                                     waited |-> FALSE])
    /\ stream' = StreamAfterEnd(stream, Len(fenceLog) + 1)
    /\ streamFrame' = [streamFrame EXCEPT
                         !.ends = @ + 1,
                         !.alternating = @ /\ streamFrame.last # "end",
                         !.last = "end"]
    /\ streamOp' = [NoStreamOp EXCEPT !.op = "end", !.ok = TRUE]
    /\ UNCHANGED notStreamVars

\* bufferStreamAlloc(size, data, &buffer)
BufferStreamAlloc(size) ==
    LET alignedSize == alignSize(size, BUFFER_ALIGNMENT)
        frameSize == StreamFrameSize(stream)
        frameStart == StreamFrameStart(stream, stream.currentFrame)
        frameEnd == (frameStart + frameSize) % SizeMod
    IN  IF (stream.streamOffset + alignedSize) % SizeMod > frameEnd
        THEN /\ streamOp' = [NoStreamOp EXCEPT !.op = "alloc", !.size = size,
                                               !.aligned = alignedSize]
             /\ UNCHANGED <<stream, fenceLog, streamFrame>>
             /\ UNCHANGED notStreamVars
        ELSE /\ Len(streamFrame.regions) < MaxStreamAllocs
             /\ stream' = [stream EXCEPT
                             !.streamOffset = (@ + alignedSize) % SizeMod]
             /\ streamFrame' = [streamFrame EXCEPT
                                  !.regions = Append(@, [offset |-> stream.streamOffset,
                                                         size |-> size,
                                                         aligned |-> alignedSize])]
             /\ streamOp' = [NoStreamOp EXCEPT !.op = "alloc", !.size = size,
                                               !.aligned = alignedSize,
                                               !.offset = stream.streamOffset,
                                               !.ok = TRUE]
             /\ UNCHANGED fenceLog
             /\ UNCHANGED notStreamVars

NextStream ==
    \/ \E result \in WaitResults : BufferStreamBeginFrame(result)
    \/ BufferStreamEndFrame
    \/ \E size \in StreamReqSizes : BufferStreamAlloc(size)

(***************************************************************************)
(* Claims about the buffer pool (checked under SpecPool).                  *)
(***************************************************************************)

\* C1: in every reachable state, whatever alloc/free calls (successful or
\* failing) came before, the sizes of the blocks in the pool's list add up to
\* pool.totalSize.
C1_PoolConservation == SumSizes(pool.blocks) = pool.totalSize

\* C1 witness: a free that coalesced, in a pool that was split and still has a
\* live allocation.
C1_Witness ==
    /\ poolOp.op = "free"
    /\ Len(pool.blocks) < Len(poolOp.pre)
    /\ Len(pool.blocks) >= 2
    /\ handles # {}

\* C2: after any alloc or free has completed, no two neighbouring blocks of the
\* list are both free.
C2_NoAdjacentFree ==
    \A i \in 1..(Len(pool.blocks) - 1) :
        ~(pool.blocks[i].free /\ pool.blocks[i + 1].free)

\* C2 witness: a free that merged the freed block with both its neighbours.
C2_Witness ==
    /\ poolOp.op = "free"
    /\ Len(poolOp.pre) = Len(pool.blocks) + 2

\* size rounded up to a multiple of BUFFER_ALIGNMENT, as a natural number
RoundUpToAlignment(size) ==
    ((size + BUFFER_ALIGNMENT - 1) \div BUFFER_ALIGNMENT) * BUFFER_ALIGNMENT

\* the free blocks of list bs that hold at least need bytes
FittingBlocks(bs, need) == {i \in 1..Len(bs) : bs[i].free /\ bs[i].size >= need}

\* C3: bufferPoolAlloc(pool, size) with size > 0 fails exactly when no free
\* block holds size rounded up to a multiple of 256, and otherwise places the
\* allocation in a free block of minimum size among those that do.
C3_BestFitOrFail ==
    (poolOp.op = "alloc" /\ poolOp.size > 0) =>
        LET fits == FittingBlocks(poolOp.pre, RoundUpToAlignment(poolOp.size))
        IN  /\ (~poolOp.ok) <=> (fits = {})
            /\ poolOp.ok =>
                  /\ poolOp.chosen \in fits
                  /\ \A j \in fits : poolOp.pre[poolOp.chosen].size <= poolOp.pre[j].size

\* C12: when no free block of the pool holds the request size rounded up to a
\* multiple of 256, bufferPoolAlloc returns NULL and leaves the block list,
\* usedSize, freeSize, the counters and the manager totals as they were.
C12_FailedAllocChangesNothing ==
    [][(/\ poolOp'.op = "alloc"
        /\ FittingBlocks(pool.blocks, RoundUpToAlignment(poolOp'.size)) = {})
       => (/\ ~poolOp'.ok
           /\ pool' = pool
           /\ mgr' = mgr
           /\ handles' = handles)
      ]_vars

\* the blocks of list bs are in offset order and tile [0, totalSize)
TilesPool(bs, totalSize) ==
    /\ bs # <<>>
    /\ bs[1].offset = 0
    /\ \A i \in 1..(Len(bs) - 1) : bs[i + 1].offset = bs[i].offset + bs[i].size
    /\ bs[Len(bs)].offset + bs[Len(bs)].size = totalSize

\* the regions [offset, offset + size) of two allocations have no byte in common
RegionsDisjoint(h1, h2) ==
    \/ h1.offset + h1.size <= h2.offset
    \/ h2.offset + h2.size <= h1.offset

\* C32: in every reachable state of a pool the blocks are ordered by offset
\* and tile [0, totalSize) without gaps, the buffer regions of any two live
\* allocations do not overlap, and every allocation offset is a multiple of
\* 256.
C32_BlocksTileAndRegionsDisjoint ==
    /\ TilesPool(pool.blocks, pool.totalSize)
    /\ \A h1, h2 \in handles : h1 # h2 => RegionsDisjoint(h1, h2)
    /\ \A h \in handles : h.offset % BUFFER_ALIGNMENT = 0

\* the sizes of the blocks of the list that are in use, added up
RECURSIVE SumUsed(_)
SumUsed(bs) ==
    IF bs = <<>> THEN 0
    ELSE (IF Head(bs).free THEN 0 ELSE Head(bs).size) + SumUsed(Tail(bs))

\* the sizes of the free blocks of the list, added up
RECURSIVE SumFree(_)
SumFree(bs) ==
    IF bs = <<>> THEN 0
    ELSE (IF Head(bs).free THEN Head(bs).size ELSE 0) + SumFree(Tail(bs))

\* C33: in every reachable state of a pool, usedSize is the sum of the sizes
\* of its blocks in use, freeSize the sum of the sizes of its free blocks, and
\* usedSize + freeSize = totalSize.
C33_UsedAndFreeSizesMatchBlocks ==
    /\ pool.usedSize = SumUsed(pool.blocks)
    /\ pool.freeSize = SumFree(pool.blocks)
    /\ pool.usedSize + pool.freeSize = pool.totalSize

\* C33 witness: a free has merged blocks while another allocation is live, in
\* a pool that holds both used and free bytes.
C33_Witness ==
    /\ poolOp.op = "free"
    /\ Len(pool.blocks) < Len(poolOp.pre)
    /\ pool.usedSize > 0
    /\ pool.freeSize > 0
    /\ pool.freeCount >= 2

\* the megabyte pool after alloc(300000), alloc(300000), free(first): two
\* allocations were made, one was freed by the last call, and the handle
\* left is the second one
C21_AfterFreeOfFirst ==
    /\ pool.totalSize = 1048576
    /\ pool.allocCount = 2 /\ pool.freeCount = 1
    /\ poolOp.op = "free" /\ poolOp.size = 300000 /\ poolOp.chosen # 0
    /\ \E h \in handles : handles = {h} /\ h.id = 2 /\ h.size = 300000

\* C21: in the pool of 1,048,576 bytes, after alloc(300000), alloc(300000),
\* free(first), a further alloc(300000) succeeds in the freed block (same
\* offset, the list keeps its length) and usedSize is the sum of the block
\* sizes of the two live allocations; and every alloc of a non-zero size whose
\* aligned size is the size of some free block is given a block of exactly
\* that size and leaves the number of blocks unchanged.
C21_ExactFitReusesBlock ==
    [][(poolOp'.op = "alloc" /\ poolOp'.size # 0) =>
         /\ (C21_AfterFreeOfFirst /\ poolOp'.size = 300000) =>
               /\ poolOp'.ok
               /\ \E h \in handles' \ handles :
                     /\ h.offset = poolOp.pre[poolOp.chosen].offset
                     /\ pool'.blocks[poolOp'.chosen].offset = h.offset
                     /\ ~pool'.blocks[poolOp'.chosen].free
               /\ Len(pool'.blocks) = Len(pool.blocks)
               /\ pool'.blockCount = pool.blockCount
               /\ Cardinality(handles') = 2
               /\ pool'.usedSize = SumUsed(pool'.blocks)
               /\ pool'.usedSize = 2 * alignSize(300000, BUFFER_ALIGNMENT)
         /\ (\E i \in 1..Len(pool.blocks) :
                 pool.blocks[i].free /\ pool.blocks[i].size = poolOp'.aligned) =>
               /\ poolOp'.ok
               /\ pool.blocks[poolOp'.chosen].free
               /\ pool.blocks[poolOp'.chosen].size = poolOp'.aligned
               /\ pool'.blocks[poolOp'.chosen].size = poolOp'.aligned
               /\ Len(pool'.blocks) = Len(pool.blocks)
               /\ pool'.blockCount = pool.blockCount
      ]_vars

\* C21 witness: the third alloc(300000) of the example has been made, in the
\* block the free released.
C21_Witness ==
    /\ pool.totalSize = 1048576
    /\ pool.allocCount = 3 /\ pool.freeCount = 1
    /\ poolOp.op = "alloc" /\ poolOp.size = 300000 /\ poolOp.ok
    /\ poolOp.chosen = 1 /\ Len(poolOp.pre) = 3 /\ poolOp.pre[1].free
    /\ Len(pool.blocks) = 3
    /\ \A h \in handles : h.size = 300000
    /\ Cardinality(handles) = 2

\* C25: a successful bufferPoolAlloc splits the chosen block if and only if
\* its size exceeds the request rounded up to a multiple of 256 by more than
\* 256 bytes; afterwards the block of the allocation has a size between the
\* rounded request and the rounded request plus 256, the handle's alignedSize
\* (and offset) are that block's, and a remainder is one free block right
\* after it; the rest of the list is as before.
C25_SplitRule ==
    [][(poolOp'.op = "alloc" /\ poolOp'.ok) =>
         LET aligned == RoundUpToAlignment(poolOp'.size)
             b == poolOp'.chosen
             pre == pool.blocks
             post == pool'.blocks
             split == Len(post) = Len(pre) + 1
         IN  /\ split <=> pre[b].size > aligned + BUFFER_ALIGNMENT
             /\ ~split => post = [pre EXCEPT ![b].free = FALSE]
             /\ post[b].size >= aligned /\ post[b].size <= aligned + BUFFER_ALIGNMENT
             /\ \E h \in handles' \ handles :
                   /\ handles' = handles \cup {h}
                   /\ h.alignedSize = post[b].size
                   /\ h.offset = post[b].offset
             /\ split =>
                   /\ post[b] = [offset |-> pre[b].offset, size |-> aligned, free |-> FALSE]
                   /\ post[b + 1] = [offset |-> pre[b].offset + aligned,
                                     size |-> pre[b].size - aligned, free |-> TRUE]
                   /\ SubSeq(post, 1, b - 1) = SubSeq(pre, 1, b - 1)
                   /\ SubSeq(post, b + 2, Len(post)) = SubSeq(pre, b + 1, Len(pre))
      ]_vars

(***************************************************************************)
(* Claims about two threads on one pool (checked under SpecPoolThreads).   *)
(***************************************************************************)

\* the steps of a call made between pthread_mutex_lock and pthread_mutex_unlock
InCriticalSection(t) ==
    threads[t].pc \in {"alloc_search", "alloc_update", "free_search", "free_update", "unlock"}

\* each call searches and updates the block list while its thread holds
\* g_bufMutex, and the list its update finds is the list its search read
CallsAtomic ==
    /\ \A t \in Threads : InCriticalSection(t) => lock = t
    /\ \A t \in Threads :
          threads[t].pc \in {"alloc_update", "free_update"} => threads[t].seen = pool.blocks

\* every live allocation has a used block of its own: for each offset and
\* size there are at least as many used blocks as live handles
EachHandleOwnsABlock ==
    \A h \in handles :
        Cardinality({g \in handles : g.offset = h.offset /\ g.alignedSize = h.alignedSize})
          <= Cardinality({i \in 1..Len(pool.blocks) :
                             /\ ~pool.blocks[i].free
                             /\ pool.blocks[i].offset = h.offset
                             /\ pool.blocks[i].size = h.alignedSize})

\* C23: under any interleaving of bufferPoolAlloc and bufferPoolFree calls of
\* two threads on one pool, each call searches and updates the block list
\* atomically (holding the allocator lock throughout), no block belongs to two
\* live allocations, and the pool invariants hold: the block sizes add up to
\* the pool size and no two neighbouring blocks are free.
C23_ConcurrentCallsAtomic ==
    /\ CallsAtomic
    /\ EachHandleOwnsABlock
    /\ SumSizes(pool.blocks) = pool.totalSize
    /\ \A i \in 1..(Len(pool.blocks) - 1) : ~(pool.blocks[i].free /\ pool.blocks[i + 1].free)

(***************************************************************************)
(* Claims about the streaming ring allocator (checked under SpecStream).   *)
(***************************************************************************)

\* the fences created and not waited on yet
PendingFences == {i \in 1..Len(fenceLog) : ~fenceLog[i].waited}

\* C14: while bufferStreamBeginFrame and bufferStreamEndFrame calls alternate
\* strictly, when bufferStreamBeginFrame has reset the write offset to the
\* start of a slice, every fence recorded after an earlier write of that slice
\* has been waited on, and at most 3 fences are recorded and not waited on.
C14_SliceReuseAfterWait ==
    streamFrame.alternating =>
        /\ streamOp.op = "begin" =>
                \A i \in 1..Len(fenceLog) :
                    fenceLog[i].slice = stream.currentFrame => fenceLog[i].waited
        /\ Cardinality(PendingFences) <= 3

\* C14 witness: alternating calls have come back to a slice written before (its
\* fence is in the log), the offset was just reset to it, and fences of the two
\* other slices were recorded, one of them still pending.
C14_Witness ==
    /\ streamFrame.alternating
    /\ streamOp.op = "begin"
    /\ \E i \in 1..Len(fenceLog) : fenceLog[i].slice = stream.currentFrame
    /\ stream.streamOffset = StreamFrameStart(stream, stream.currentFrame)
    /\ PendingFences # {}
    /\ Len(fenceLog) >= 3

\* the fence recorded the last time the slice was written (0: never written)
LastFenceOf(log, slice) ==
    LET of == {i \in 1..Len(log) : log[i].slice = slice}
    IN  IF of = {} THEN 0 ELSE CHOOSE i \in of : \A j \in of : j <= i

Disjoint(a, m, b, n) == a + m <= b \/ b + n <= a

\* C16: a successful bufferStreamAlloc returns a region [offset, offset + size
\* rounded up to a multiple of 256) that lies inside the slice of the current
\* frame index and overlaps no region handed out since the offset was last
\* reset; when the rounded size does not fit in the rest of the slice the call
\* fails and leaves streamOffset unchanged.
C16_StreamRegionsInsideSlice ==
    [][streamOp'.op = "alloc" =>
         LET frameStart == stream.currentFrame * StreamFrameSize(stream)
             frameEnd == frameStart + StreamFrameSize(stream)
             need == RoundUpToAlignment(streamOp'.size)
         IN  /\ streamOp'.ok =>
                    /\ frameStart <= streamOp'.offset
                    /\ streamOp'.offset + need <= frameEnd
                    /\ \A i \in 1..Len(streamFrame.regions) :
                            Disjoint(streamOp'.offset, need,
                                     streamFrame.regions[i].offset,
                                     RoundUpToAlignment(streamFrame.regions[i].size))
             /\ stream.streamOffset + need > frameEnd =>
                    /\ ~streamOp'.ok
                    /\ stream'.streamOffset = stream.streamOffset
      ]_vars

\* C36: bufferStreamAlloc returns 0 only when it fails: no successful
\* allocation has offset 0, so the return value alone tells slice exhaustion
\* from success.
C36_ZeroOnlyOnFailure ==
    (streamOp.op = "alloc" /\ streamOp.ok) => streamOp.offset # 0

\* C17: a bufferStreamBeginFrame whose fence wait times out still returns,
\* having released the fence slot and reset streamOffset to the start of the
\* current slice: it leaves the allocator in the state a signalled fence would
\* have left it in, so this frame and the later ones proceed alike.
C17_TimeoutDoesNotStopFrame ==
    [][(streamOp'.op = "begin" /\ streamOp'.result = "GL_TIMEOUT_EXPIRED") =>
         /\ streamOp'.ok
         /\ streamOp'.waited # 0
         /\ fenceLog'[streamOp'.waited].waited
         /\ \A f \in 1..3 : stream'.streamFences[f] # streamOp'.waited
         /\ stream'.streamOffset = StreamFrameStart(stream, stream.currentFrame)
         /\ stream' = StreamAfterBegin(stream, "GL_CONDITION_SATISFIED")
      ]_vars

\* C17 witness: a begin-frame whose wait on a recorded fence timed out has
\* returned with the offset at the start of its slice.
C17_Witness ==
    /\ streamOp.op = "begin"
    /\ streamOp.result = "GL_TIMEOUT_EXPIRED"
    /\ streamOp.waited # 0
    /\ streamFrame.begins >= 2
    /\ stream.streamOffset = StreamFrameStart(stream, stream.currentFrame)

(***************************************************************************)
(* draw_batcher.c                                                          *)
(***************************************************************************)
HashMod == 2 ^ HashBits

\* maxCommands values passed to drawBatcherInit
MaxCommandsChoices == {4, 8}

\* The model submits through drawBatcherDrawArrays and
\* drawBatcherDrawArraysInstanced; the Elements wrappers differ from them only in
\* the type tag (and so in isElements), which no step of the flush reads.

ZeroKey == [program |-> 0, vao |-> 0, texture0 |-> 0, texture1 |-> 0, mode |-> 0, stateHash |-> 0]

\* keys the caller installs with drawBatcherSetKey
Keys == {ZeroKey, [ZeroKey EXCEPT !.program = 1, !.vao = 1, !.texture0 = 1]}

\* bitwise exclusive or of two naturals
RECURSIVE BitXor(_, _)
BitXor(a, b) ==
    IF a = 0 THEN b
    ELSE IF b = 0 THEN a
    ELSE ((a + b) % 2) + 2 * BitXor(a \div 2, b \div 2)

\* hashBatchKey (FNV-1a over the six fields, no multiplication after the last)
hashBatchKey(key) ==
    LET h0 == FNV_OFFSET_LOW % HashMod
        h1 == (BitXor(h0, key.program % HashMod) * FNV_PRIME_LOW) % HashMod
        h2 == (BitXor(h1, key.vao % HashMod) * FNV_PRIME_LOW) % HashMod
        h3 == (BitXor(h2, key.texture0 % HashMod) * FNV_PRIME_LOW) % HashMod
        h4 == (BitXor(h3, key.texture1 % HashMod) * FNV_PRIME_LOW) % HashMod
        h5 == (BitXor(h4, key.mode % HashMod) * FNV_PRIME_LOW) % HashMod
    IN  BitXor(h5, key.stateHash % HashMod)

batchKeysEqual(a, b) ==
    /\ a.program = b.program
    /\ a.vao = b.vao
    /\ a.texture0 = b.texture0
    /\ a.texture1 = b.texture1
    /\ a.mode = b.mode
    /\ a.stateHash = b.stateHash

\* compareBatchKeys(a, b) <= 0
compareBatchKeysLeq(a, b) == hashBatchKey(a.key) <= hashBatchKey(b.key)

\* commands that agree in every field the batcher reads (they differ in id only)
SameCommand(c, d) == c.type = d.type /\ c.key = d.key /\ c.canBatch = d.canBatch

\* the orders qsort may leave the commands at positions S in: any order that is
\* ascending under compareBatchKeys (the order of equal elements is unspecified).
\* Commands that differ in id only are interchangeable, so of their orders the
\* one by submission is kept.
RECURSIVE SortedOrders(_, _)
SortedOrders(cmds, S) ==
    IF S = {} THEN {<<>>}
    ELSE UNION { { <<cmds[x]>> \o rest : rest \in SortedOrders(cmds, S \ {x}) } :
                 x \in {y \in S : /\ \A z \in S : compareBatchKeysLeq(cmds[y], cmds[z])
                                  /\ \A z \in S : SameCommand(cmds[y], cmds[z]) => cmds[y].id <= cmds[z].id} }

\* the command buffer after the qsort call of buildBatches (none when batching is off)
QsortResults(cmds, enableBatching) ==
    IF enableBatching THEN SortedOrders(cmds, 1..Len(cmds)) ELSE {cmds}

\* mutant of CountRun: compares the keys but not the command types
RECURSIVE CountRun_IgnoresType(_, _, _)
CountRun_IgnoresType(cmds, i, batchSize) ==
    IF /\ i + batchSize <= Len(cmds)
       /\ batchKeysEqual(cmds[i].key, cmds[i + batchSize].key)
    THEN CountRun_IgnoresType(cmds, i, batchSize + 1)
    ELSE batchSize

\* "Count consecutive commands with same key": the inner loop of buildBatches,
\* with batchSize commands counted so far from position i
RECURSIVE CountRun(_, _, _)
CountRun(cmds, i, batchSize) ==
    IF /\ i + batchSize <= Len(cmds)
       /\ batchKeysEqual(cmds[i].key, cmds[i + batchSize].key)
       /\ cmds[i].type = cmds[i + batchSize].type
    THEN CountRun(cmds, i, batchSize + 1)
    ELSE batchSize

\* the outer loop of buildBatches from position i, with the batches built so far
RECURSIVE BuildBatchesFrom(_, _, _, _)
BuildBatchesFrom(cmds, i, batches, maxBatches) ==
    IF i > Len(cmds) THEN batches
    ELSE LET batchSize == CountRun(cmds, i, 1)
             batch == [key |-> cmds[i].key,
                       commandCount |-> batchSize,
                       isElements |-> cmds[i].type \in {"DRAW_CMD_ELEMENTS", "DRAW_CMD_ELEMENTS_INSTANCED"}]
         IN  BuildBatchesFrom(cmds, i + batchSize,
                              IF Len(batches) < maxBatches THEN Append(batches, batch) ELSE batches,
                              maxBatches)

\* buildBatches on the (sorted) command buffer
buildBatches(cmds, maxBatches) == BuildBatchesFrom(cmds, 1, <<>>, maxBatches)

\* the loop of drawBatcherFlush over the batches from batch b, with cmdIndex the
\* first command of batch b: for each batch the commands handed to executeDirect
\* and whether they went through executeMultiDraw
RECURSIVE ExecuteBatchesFrom(_, _, _, _, _, _)
ExecuteBatchesFrom(cmds, batches, b, cmdIndex, minBatchSize, enableBatching) ==
    IF b > Len(batches) THEN <<>>
    ELSE LET n == batches[b].commandCount
             run == [batch |-> batches[b],
                     multi |-> (n >= minBatchSize /\ enableBatching),
                     cmds  |-> SubSeq(cmds, cmdIndex, cmdIndex + n - 1)]
         IN  <<run>> \o ExecuteBatchesFrom(cmds, batches, b + 1, cmdIndex + n,
                                           minBatchSize, enableBatching)

RECURSIVE SumCounts(_)
SumCounts(runs) == IF runs = <<>> THEN 0 ELSE Len(Head(runs).cmds) + SumCounts(Tail(runs))

\* drawCallsSaved added by executeMultiDraw over the runs
RECURSIVE SumSaved(_)
SumSaved(runs) ==
    IF runs = <<>> THEN 0
    ELSE (IF Head(runs).multi /\ Len(Head(runs).cmds) > 1 THEN Len(Head(runs).cmds) - 1 ELSE 0)
         + SumSaved(Tail(runs))

\* ids of the commands the runs issued, with multiplicity
RECURSIVE IssuedBy(_, _)
IssuedBy(runs, issued) ==
    IF runs = <<>> THEN issued
    ELSE IssuedBy(Tail(runs),
                  [id \in DOMAIN issued |->
                      issued[id] + Cardinality({k \in 1..Len(Head(runs).cmds) :
                                                    Head(runs).cmds[k].id = id})])

\* drawBatcherFlush on a non-empty buffer that qsort left as sorted:
\* the runs executed and the context afterwards
FlushRuns(b, sorted) ==
    ExecuteBatchesFrom(sorted, buildBatches(sorted, b.maxBatches), 1, 1,
                       b.minBatchSize, b.enableBatching)

\* the commands with their type, key and canBatch only
WithoutIds(cmds) == [k \in 1..Len(cmds) |-> [cmds[k] EXCEPT !.id = 0]]

\* what lastFlush keeps of the runs: each command's type, key and canBatch
FlushRecord(runs) ==
    [r \in 1..Len(runs) |-> [runs[r] EXCEPT !.cmds = WithoutIds(runs[r].cmds)]]

AfterFlush(b, sorted) ==
    LET runs == FlushRuns(b, sorted)
    IN  [b EXCEPT !.commands = <<>>,
                  !.drawCallsExecuted = @ + SumCounts(runs),
                  !.drawCallsSaved = @ + SumSaved(runs),
                  !.batchesCreated = @ + Len(buildBatches(sorted, b.maxBatches))]

NoIssued == [id \in 1..MaxSubmits |-> 0]

\* the variables of the batcher while another subsystem is explored
BatcherUnused ==
    /\ batcher = [commands |-> <<>>]
    /\ currentKey = ZeroKey
    /\ frame = [phase |-> "idle"]
    /\ lastFlush = <<>>

\* drawBatcherInit(maxCommands)
InitBatcher ==
    /\ \E maxCommands \in MaxCommandsChoices :
          batcher = [commands |-> <<>>, maxCommands |-> maxCommands,
                     maxBatches |-> maxCommands \div 4,
                     enableBatching |-> TRUE, enableInstancing |-> TRUE, minBatchSize |-> 2,
                     drawCallsSubmitted |-> 0, drawCallsExecuted |-> 0,
                     drawCallsSaved |-> 0, batchesCreated |-> 0]
    /\ currentKey = ZeroKey
    /\ frame = [phase |-> "idle", submitted |-> 0, issued |-> NoIssued, sorted |-> <<>>]
    /\ lastFlush = <<>>

\* drawBatcherBeginFrame
DrawBatcherBeginFrame ==
    /\ frame.phase \in {"idle", "ended"}
    /\ batcher' = [batcher EXCEPT !.commands = <<>>,
                                  !.drawCallsSubmitted = 0, !.drawCallsExecuted = 0,
                                  !.drawCallsSaved = 0, !.batchesCreated = 0]
    /\ frame' = [phase |-> "open", submitted |-> 0, issued |-> NoIssued, sorted |-> <<>>]
    /\ lastFlush' = <<>>
    /\ UNCHANGED currentKey
    /\ UNCHANGED notBatcherVars

\* drawBatcherSetKey(key)
DrawBatcherSetKey(key) ==
    /\ currentKey # key
    /\ currentKey' = key
    /\ UNCHANGED <<batcher, frame, lastFlush>>
    /\ UNCHANGED notBatcherVars

\* drawBatcherSubmit(cmd): flushes first when the buffer is full, then appends
DrawBatcherSubmit(cmd) ==
    /\ frame.phase = "open"
    /\ frame.submitted < MaxSubmits
    /\ LET c == [cmd EXCEPT !.id = frame.submitted + 1]
       IN  IF Len(batcher.commands) >= batcher.maxCommands
           THEN \E sorted \in QsortResults(batcher.commands, batcher.enableBatching) :
                   LET runs == FlushRuns(batcher, sorted)
                       b2 == AfterFlush(batcher, sorted)
                   IN  /\ batcher' = [b2 EXCEPT !.commands = <<c>>,
                                                !.drawCallsSubmitted = @ + 1]
                       /\ frame' = [frame EXCEPT !.submitted = @ + 1,
                                                 !.issued = IssuedBy(runs, @),
                                                 !.sorted = WithoutIds(sorted)]
                       /\ lastFlush' = FlushRecord(runs)
           ELSE /\ batcher' = [batcher EXCEPT !.commands = Append(@, c),
                                              !.drawCallsSubmitted = @ + 1]
                /\ frame' = [frame EXCEPT !.submitted = @ + 1]
                /\ UNCHANGED lastFlush
    /\ UNCHANGED currentKey
    /\ UNCHANGED notBatcherVars

\* the DrawCommand the drawBatcherDraw* wrappers build from g_currentKey
WrapperCommand(type, mode) ==
    [id |-> 0, type |-> type,
     key |-> [currentKey EXCEPT !.mode = mode],
     canBatch |-> IF type \in {"DRAW_CMD_ARRAYS", "DRAW_CMD_ELEMENTS"}
                  THEN batcher.enableBatching ELSE FALSE]

DrawBatcherDrawArrays == DrawBatcherSubmit(WrapperCommand("DRAW_CMD_ARRAYS", GL_TRIANGLES))

DrawBatcherDrawArraysInstanced ==
    DrawBatcherSubmit(WrapperCommand("DRAW_CMD_ARRAYS_INSTANCED", GL_TRIANGLES))


\* drawBatcherEndFrame: the implicit flush
DrawBatcherEndFrame ==
    /\ frame.phase = "open"
    /\ IF batcher.commands = <<>>
       THEN /\ frame' = [frame EXCEPT !.phase = "ended"]
            /\ UNCHANGED <<batcher, lastFlush>>
       ELSE \E sorted \in QsortResults(batcher.commands, batcher.enableBatching) :
               /\ batcher' = AfterFlush(batcher, sorted)
               /\ frame' = [frame EXCEPT !.phase = "ended",
                                         !.issued = IssuedBy(FlushRuns(batcher, sorted), @),
                                         !.sorted = WithoutIds(sorted)]
               /\ lastFlush' = FlushRecord(FlushRuns(batcher, sorted))
    /\ UNCHANGED currentKey
    /\ UNCHANGED notBatcherVars

\* drawBatcherSetEnabled(enabled), called between frames (velocityUpdateConfig)
DrawBatcherSetEnabled(enabled) ==
    /\ frame.phase # "open"
    /\ batcher.enableBatching # enabled
    /\ batcher' = [batcher EXCEPT !.enableBatching = enabled]
    /\ UNCHANGED <<currentKey, frame, lastFlush>>
    /\ UNCHANGED notBatcherVars

NextBatcher ==
    \/ DrawBatcherBeginFrame
    \/ \E key \in Keys : DrawBatcherSetKey(key)
    \/ DrawBatcherDrawArrays
    \/ DrawBatcherDrawArraysInstanced
    \/ DrawBatcherEndFrame
    \/ \E enabled \in BOOLEAN : DrawBatcherSetEnabled(enabled)

(***************************************************************************)
(* shader_cache.c                                                          *)
(***************************************************************************)

\* the programs the application compiles: vertex and fragment source strings
\* (as byte sequences)
Programs == {<<<<97>>, <<97>>>>, <<<<97>>, <<98>>>>, <<<<98>>, <<97>>>>}
\* the programs compiled in the runs that share a cache directory
DiskPrograms == {<<<<97>>, <<98>>>>, <<<<98>>, <<97>>>>}
\* renderer and version strings of g_wrapperCtx->gpuCaps ("" until a context is current)
CapsStrings == {<<>>, <<65>>}
\* cache budgets passed to shaderCacheInit as maxSize (0 selects the default)
MaxSizeChoices == {0, 4}
\* lengths glGetProgramBinary reports (0: no binary available)
BinaryLengths == {0, 1, 3, 5}

\* shaderCacheHashSource: FNV-1a over the bytes of the string (low HashBits bits)
RECURSIVE HashBytes(_, _)
HashBytes(hash, source) ==
    IF source = <<>> THEN hash
    ELSE HashBytes((BitXor(hash, Head(source)) * FNV_PRIME_LOW) % HashMod, Tail(source))

shaderCacheHashSource(source) == HashBytes(FNV_OFFSET_LOW % HashMod, source)

\* "Combine hashes": vertHash ^ (fragHash * 31)
CombineHashes(vertHash, fragHash) == BitXor(vertHash, (fragHash * 31) % HashMod)

shaderCacheHashProgram(vertSource, fragSource) ==
    CombineHashes(shaderCacheHashSource(vertSource), shaderCacheHashSource(fragSource))

\* shaderCacheHashProgram of the programs above, computed once
ProgramHash == [p \in Programs \cup DiskPrograms |-> shaderCacheHashProgram(p[1], p[2])]

\* a zeroed MemoryCacheEntry (binaryData 0 is the NULL pointer, otherwise the
\* identity of the binary, its format and bytes: the key of the program it was
\* read from)
EmptyEntry == [hash |-> 0, binaryData |-> 0, binarySize |-> 0, lastUsed |-> 0]

\* g_shaderCache = NULL
NullCache ==
    [allocated |-> FALSE, initialized |-> FALSE, diskCacheEnabled |-> FALSE,
     maxCacheSize |-> 0, maxEntries |-> 0, entries |-> <<>>, entryCount |-> 0,
     totalSize |-> 0, hits |-> 0, misses |-> 0,
     gpuVendorHash |-> 0, driverVersionHash |-> 0]

\* no g_wrapperCtx
NoCtx == [present |-> FALSE, rendererString |-> <<>>, versionString |-> <<>>]

\* g_wrapperCtx of a process: absent, or with the renderer string still empty
\* (shaderCacheInit runs from glWrapperInit, before gpuDetect fills gpuCaps)
WrapperChoices ==
    {NoCtx} \cup {[present |-> TRUE, rendererString |-> <<>>, versionString |-> v] :
                    v \in CapsStrings}

\* no shader_cache.bin in the cache directory
NoFile ==
    [exists |-> FALSE, magic |-> 0, version |-> 0, gpuVendorHash |-> 0,
     driverVersionHash |-> 0, entries |-> <<>>]

\* a cache file left behind by another build of the library
ForeignFile(magic, version) ==
    [exists |-> TRUE, magic |-> magic, version |-> version, gpuVendorHash |-> 0,
     driverVersionHash |-> 0,
     entries |-> <<[sourceHash |-> shaderCacheHashProgram(<<97>>, <<97>>),
                    binaryData |-> shaderCacheHashProgram(<<97>>, <<97>>),
                    binarySize |-> 1]>>]

InitialFiles ==
    {NoFile, ForeignFile(0, SHADER_CACHE_VERSION), ForeignFile(SHADER_CACHE_MAGIC, SHADER_CACHE_VERSION + 1)}

NoCacheOp == [op |-> "none", hash |-> 0, length |-> 0, evicted |-> <<>>, result |-> FALSE]

\* getCurrentTime: CLOCK_MONOTONIC in milliseconds; two reads may return the
\* same millisecond
ClockReads == {t \in {now, now + 1} : t <= MaxClock}

\* the slots of the table that hold an entry
Occupied(entries) == {i \in 1..Len(entries) : entries[i].hash # 0}

\* mutant of shaderCacheFindEntry: looks at the first slot only
shaderCacheFindEntry_FirstSlotOnly(c, hash) ==
    IF c.entryCount >= 1 /\ c.entries[1].hash = hash THEN 1 ELSE 0

\* shaderCacheFindEntry: first slot below entryCount holding the hash, 0 if none
shaderCacheFindEntry(c, hash) ==
    LET found == {i \in 1..c.entryCount : c.entries[i].hash = hash}
    IN  IF found = {} THEN 0 ELSE CHOOSE i \in found : \A j \in found : i <= j

\* the scan of shaderCacheEvict picking the newest entry instead of the oldest
FindLRU_PicksNewest(entries) ==
    LET occ == Occupied(entries)
    IN  IF occ = {} THEN 0
        ELSE CHOOSE i \in occ : \A j \in occ : entries[j].lastUsed <= entries[i].lastUsed

\* the scan of shaderCacheEvict: the first slot with the strictly smallest lastUsed
FindLRU(entries) ==
    LET occ == Occupied(entries)
    IN  IF occ = {} THEN 0
        ELSE CHOOSE i \in occ :
                /\ \A j \in occ : entries[i].lastUsed <= entries[j].lastUsed
                /\ \A j \in occ : entries[j].lastUsed = entries[i].lastUsed => i <= j

\* mutant of EvictSlot: the slot is left as it is
EvictSlot_LeavesEntry(c, lruIndex) == c

\* "Evict" of shaderCacheEvict: the size of the entry is taken from totalSize
\* and the slot is zeroed
EvictSlot(c, lruIndex) ==
    [c EXCEPT !.totalSize = (@ - c.entries[lruIndex].binarySize) % SizeMod,
              !.entries[lruIndex] = EmptyEntry]

\* shaderCacheEvict(bytesNeeded): the loop, with the slots it emptied in order
RECURSIVE EvictLoop(_, _, _)
EvictLoop(c, bytesNeeded, evicted) ==
    IF c.totalSize + bytesNeeded > c.maxCacheSize /\ c.entryCount > 0
    THEN LET lruIndex == FindLRU(c.entries)
         IN  IF lruIndex = 0 THEN [cache |-> c, evicted |-> evicted]
             ELSE EvictLoop(EvictSlot(c, lruIndex), bytesNeeded, Append(evicted, lruIndex))
    ELSE [cache |-> c, evicted |-> evicted]

shaderCacheEvict(c, bytesNeeded) == EvictLoop(c, bytesNeeded, <<>>)

\* the first slot with hash 0, 0 if none
FreeSlot(entries) ==
    LET free == {i \in 1..Len(entries) : entries[i].hash = 0}
    IN  IF free = {} THEN 0 ELSE CHOOSE i \in free : \A j \in free : i <= j

\* the header check of shaderCacheLoadFromDisk
HeaderAccepted(c, file) ==
    /\ file.magic = SHADER_CACHE_MAGIC
    /\ file.version = SHADER_CACHE_VERSION
    /\ file.gpuVendorHash = c.gpuVendorHash

\* the read loop of shaderCacheLoadFromDisk: entry i of the file goes to slot
\* entryCount, for i below header.entryCount and maxEntries
RECURSIVE LoadEntries(_, _, _, _)
LoadEntries(c, fileEntries, i, t) ==
    IF i > Len(fileEntries) \/ i > c.maxEntries THEN c
    ELSE LoadEntries([c EXCEPT !.entries[c.entryCount + 1] =
                                    [hash |-> fileEntries[i].sourceHash,
                                     binaryData |-> fileEntries[i].binaryData,
                                     binarySize |-> fileEntries[i].binarySize,
                                     lastUsed |-> t],
                               !.totalSize = @ + fileEntries[i].binarySize,
                               !.entryCount = @ + 1],
                     fileEntries, i + 1, t)

\* shaderCacheLoadFromDisk on context c at clock reading t
LoadFromDisk(c, file, t) ==
    IF ~c.diskCacheEnabled \/ ~file.exists \/ ~HeaderAccepted(c, file) THEN c
    ELSE LoadEntries(c, file.entries, 1, t)

\* the entries shaderCacheSaveToDisk writes: occupied slots with a binary, in slot order
RECURSIVE SavedEntries(_, _)
SavedEntries(entries, i) ==
    IF i > Len(entries) THEN <<>>
    ELSE IF entries[i].hash = 0 \/ entries[i].binaryData = 0 THEN SavedEntries(entries, i + 1)
    ELSE <<[sourceHash |-> entries[i].hash,
            binaryData |-> entries[i].binaryData,
            binarySize |-> entries[i].binarySize]>> \o SavedEntries(entries, i + 1)

\* the file shaderCacheSaveToDisk leaves
SavedFile(c) ==
    [exists |-> TRUE, magic |-> SHADER_CACHE_MAGIC, version |-> SHADER_CACHE_VERSION,
     gpuVendorHash |-> c.gpuVendorHash, driverVersionHash |-> c.driverVersionHash,
     entries |-> SavedEntries(c.entries, 1)]

NoHashOp == [op |-> "none", vertHash |-> 0, fragHash |-> 0, key |-> 0, swappedKey |-> 0]

\* the variables of the shader cache while another subsystem is explored
CacheUnused ==
    /\ cache = NullCache
    /\ disk = NoFile
    /\ wrapperCtx = NoCtx
    /\ now = 0
    /\ inits = 0
    /\ cacheOp = NoCacheOp
    /\ cacheThreads = <<>>
    /\ hashOp = NoHashOp
    /\ evictRun = NoEvictRun

\* the context shaderCacheInit(cachePath, maxSize) builds in a process whose
\* g_wrapperCtx is ctx, at clock reading t; withPath: cachePath names a
\* directory that exists or can be created
InitializedCache(ctx, withPath, maxSize, file, t) ==
    LET c0 == [NullCache EXCEPT
                 !.allocated = TRUE,
                 !.maxCacheSize = IF maxSize > 0 THEN maxSize ELSE 64 * 1024 * 1024,
                 !.maxEntries = MAX_CACHED_PROGRAMS,
                 !.entries = [i \in 1..MAX_CACHED_PROGRAMS |-> EmptyEntry],
                 !.diskCacheEnabled = withPath]
        c1 == LoadFromDisk(c0, file, t)
    IN  [c1 EXCEPT
           !.gpuVendorHash =
               IF ctx.present THEN shaderCacheHashSource(ctx.rendererString) ELSE 0,
           !.driverVersionHash =
               IF ctx.present THEN shaderCacheHashSource(ctx.versionString) ELSE 0,
           !.initialized = TRUE]

\* the cache right after shaderCacheInit(NULL, maxSize): memory only
InitCache ==
    /\ \E maxSize \in MaxSizeChoices : cache = InitializedCache(NoCtx, FALSE, maxSize, NoFile, 0)
    /\ disk = NoFile
    /\ wrapperCtx = NoCtx
    /\ now = 0
    /\ inits = 1
    /\ cacheOp = [NoCacheOp EXCEPT !.op = "init", !.result = TRUE]
    /\ cacheThreads = <<>>
    /\ hashOp = NoHashOp
    /\ evictRun = NoEvictRun

\* a process that has not initialised the cache yet, in a cache directory that
\* is empty or holds a file of another build of the library
InitCacheDisk ==
    /\ cache = NullCache
    /\ disk \in InitialFiles
    /\ wrapperCtx = NoCtx
    /\ now = 0
    /\ inits = 0
    /\ cacheOp = NoCacheOp
    /\ cacheThreads = <<>>
    /\ hashOp = NoHashOp
    /\ evictRun = NoEvictRun

\* shaderCacheInit(cachePath, maxSize)
ShaderCacheInit(ctx, withPath, maxSize) ==
    /\ ~cache.allocated
    /\ inits < MaxInits
    /\ \E t \in ClockReads :
        /\ cache' = InitializedCache(ctx, withPath, maxSize, disk, t)
        /\ now' = IF cache'.entryCount > 0 THEN t ELSE now
    /\ cacheOp' = [NoCacheOp EXCEPT !.op = "init", !.result = TRUE]
    /\ wrapperCtx' = ctx
    /\ inits' = inits + 1
    /\ UNCHANGED disk
    /\ UNCHANGED notCacheVars

\* shaderCacheShutdown
ShaderCacheShutdown ==
    /\ cache.allocated
    /\ disk' = IF cache.diskCacheEnabled THEN SavedFile(cache) ELSE disk
    /\ cache' = NullCache
    /\ cacheOp' = [NoCacheOp EXCEPT !.op = "shutdown"]
    /\ UNCHANGED <<wrapperCtx, now, inits>>
    /\ UNCHANGED notCacheVars

\* shaderCacheClear
ShaderCacheClear ==
    /\ cache.allocated
    /\ cache' = [cache EXCEPT !.entries = [i \in 1..cache.maxEntries |-> EmptyEntry],
                              !.entryCount = 0, !.totalSize = 0, !.hits = 0, !.misses = 0]
    /\ cacheOp' = [NoCacheOp EXCEPT !.op = "clear"]
    /\ UNCHANGED <<disk, wrapperCtx, now, inits>>
    /\ UNCHANGED notCacheVars

\* shaderCacheLoadFromDisk called by the application on an empty table
ShaderCacheLoadFromDisk ==
    /\ cache.allocated
    /\ cache.entryCount = 0
    /\ \E t \in ClockReads :
        LET c1 == LoadFromDisk(cache, disk, t)
        IN  /\ cache' = c1
            /\ now' = IF c1.entryCount > 0 THEN t ELSE now
            /\ cacheOp' = [NoCacheOp EXCEPT
                             !.op = "load",
                             !.result = cache.diskCacheEnabled /\ disk.exists
                                        /\ HeaderAccepted(cache, disk)]
    /\ UNCHANGED <<disk, wrapperCtx, inits>>
    /\ UNCHANGED notCacheVars

\* a purge that frees the binary but leaves the key in the slot
PurgedEntry_KeepsHash(e) == [e EXCEPT !.binaryData = 0]

\* the entry after shaderCacheGetProgram found its binary invalid: the binary
\* is freed and the key zeroed; binarySize stays, and so does totalSize
PurgedEntry(e) == [e EXCEPT !.binaryData = 0, !.hash = 0]

\* shaderCacheGetProgram(vertSource, fragSource, &program); linkOk: the driver
\* accepts the stored binary (shaderCacheCreateProgramFromBinary returns a program)
ShaderCacheGetProgram(vertSource, fragSource, linkOk) ==
    /\ cache.allocated
    /\ cache.hits + cache.misses < MaxGets
    /\ LET hash == ProgramHash[<<vertSource, fragSource>>]
           slot == shaderCacheFindEntry(cache, hash)
       IN  IF slot = 0 \/ cache.entries[slot].binaryData = 0
           THEN /\ cache' = [cache EXCEPT !.misses = @ + 1]
                /\ cacheOp' = [NoCacheOp EXCEPT !.op = "get", !.hash = hash]
                /\ UNCHANGED now
           ELSE IF ~linkOk
           THEN /\ cache' = [cache EXCEPT !.entries[slot] = PurgedEntry(@),
                                          !.misses = @ + 1]
                /\ cacheOp' = [NoCacheOp EXCEPT !.op = "purge", !.hash = hash]
                /\ UNCHANGED now
           ELSE \E t \in ClockReads :
                /\ cache' = [cache EXCEPT !.entries[slot].lastUsed = t, !.hits = @ + 1]
                /\ cacheOp' = [NoCacheOp EXCEPT !.op = "get", !.hash = hash, !.result = TRUE]
                /\ now' = t
    /\ UNCHANGED <<disk, wrapperCtx, inits>>
    /\ UNCHANGED notCacheVars

\* shaderCacheStoreProgram(vertSource, fragSource, program) for a program whose
\* binary the driver reports with the given length
ShaderCacheStoreProgram(vertSource, fragSource, length) ==
    /\ cache.allocated
    /\ LET hash == ProgramHash[<<vertSource, fragSource>>]
       IN  IF shaderCacheFindEntry(cache, hash) # 0 \/ length <= 0
           THEN /\ cacheOp' = [NoCacheOp EXCEPT !.op = "store", !.hash = hash]
                /\ UNCHANGED <<cache, now>>
           ELSE LET ev == IF cache.totalSize + length > cache.maxCacheSize
                             \/ cache.entryCount >= cache.maxEntries
                          THEN shaderCacheEvict(cache, length)
                          ELSE [cache |-> cache, evicted |-> <<>>]
                    c1 == ev.cache
                    slot == FreeSlot(c1.entries)
                IN  IF slot = 0
                    THEN /\ cache' = c1
                         /\ cacheOp' = [NoCacheOp EXCEPT !.op = "store", !.hash = hash,
                                          !.length = length, !.evicted = ev.evicted]
                         /\ UNCHANGED now
                    ELSE \E t \in ClockReads :
                         /\ cache' = [c1 EXCEPT
                                        !.entries[slot] = [hash |-> hash, binaryData |-> hash,
                                                           binarySize |-> length, lastUsed |-> t],
                                        !.totalSize = @ + length,
                                        !.entryCount = IF slot - 1 >= @ THEN slot ELSE @]
                         /\ cacheOp' = [NoCacheOp EXCEPT !.op = "store", !.hash = hash,
                                          !.length = length, !.evicted = ev.evicted,
                                          !.result = TRUE]
                         /\ now' = t
    /\ UNCHANGED <<disk, wrapperCtx, inits>>
    /\ UNCHANGED notCacheVars

\* the in-memory cache of one process: store, get, clear
NextCache ==
    \/ \E p \in Programs, length \in BinaryLengths : ShaderCacheStoreProgram(p[1], p[2], length)
    \/ \E p \in Programs, linkOk \in BOOLEAN : ShaderCacheGetProgram(p[1], p[2], linkOk)
    \/ ShaderCacheClear

\* the binary length the driver reports in the runs that share a cache directory
DiskBinaryLengths == {1}

\* process runs sharing one cache directory: init (with its load), store, get,
\* reload, shutdown (with its save)
NextCacheDisk ==
    \/ \E ctx \in WrapperChoices, withPath \in BOOLEAN, maxSize \in MaxSizeChoices :
            ShaderCacheInit(ctx, withPath, maxSize)
    \/ ShaderCacheShutdown
    \/ ShaderCacheLoadFromDisk
    \/ \E p \in DiskPrograms, length \in DiskBinaryLengths :
            ShaderCacheStoreProgram(p[1], p[2], length)
    \/ \E p \in DiskPrograms, linkOk \in BOOLEAN : ShaderCacheGetProgram(p[1], p[2], linkOk)

(***************************************************************************)
(* shader_cache.c: shaderCacheStoreProgram and shaderCacheGetProgram       *)
(* called by the render thread and by a background thread.                 *)
(*                                                                         *)
(* shader_cache.c takes no lock, so the steps of the two calls interleave: *)
(* a store is its duplicate check, its eviction, its search for a free     *)
(* slot and its write of the slot; a get is its lookup and its use of the  *)
(* entry found.                                                            *)
(***************************************************************************)

CacheThreadIds == {"render", "background"}
\* programs and binary lengths of the calls made by the two threads
ThreadPrograms == {<<<<97>>, <<98>>>>, <<<<98>>, <<97>>>>}
ThreadBinaryLengths == {1, 3}

\* a thread outside the cache functions that has made the given number of
\* shaderCacheStoreProgram calls
IdleCacheThread(stores) == [pc |-> "idle", hash |-> 0, length |-> 0, slot |-> 0, stores |-> stores]

InitCacheThreads ==
    /\ \E maxSize \in MaxSizeChoices : cache = InitializedCache(NoCtx, FALSE, maxSize, NoFile, 0)
    /\ disk = NoFile
    /\ wrapperCtx = NoCtx
    /\ now = 0
    /\ inits = 1
    /\ cacheOp = [NoCacheOp EXCEPT !.op = "init", !.result = TRUE]
    /\ cacheThreads = [t \in CacheThreadIds |-> IdleCacheThread(0)]
    /\ hashOp = NoHashOp
    /\ evictRun = NoEvictRun

\* thread t enters shaderCacheStoreProgram: the hash, "Check if already
\* cached", and the program binary of the given length
CacheStoreCall(t, vertSource, fragSource, length) ==
    LET hash == ProgramHash[<<vertSource, fragSource>>]
    IN  /\ cacheThreads[t].pc = "idle"
        /\ cacheThreads[t].stores < MaxThreadStores
        /\ cacheOp' = [NoCacheOp EXCEPT !.op = "store", !.hash = hash]
        /\ cacheThreads' =
              IF shaderCacheFindEntry(cache, hash) # 0 \/ length <= 0
              THEN [cacheThreads EXCEPT ![t].stores = @ + 1]
              ELSE [cacheThreads EXCEPT ![t] = [pc |-> "store_evict", hash |-> hash,
                                                length |-> length, slot |-> 0,
                                                stores |-> @.stores + 1]]
        /\ UNCHANGED <<cache, now>>
        /\ UNCHANGED notCacheThreadVars

\* shaderCacheStoreProgram in thread t: "Check if we need to evict"
CacheStoreEvict(t) ==
    LET length == cacheThreads[t].length
    IN  /\ cacheThreads[t].pc = "store_evict"
        /\ cache' = IF cache.totalSize + length > cache.maxCacheSize
                       \/ cache.entryCount >= cache.maxEntries
                    THEN shaderCacheEvict(cache, length).cache
                    ELSE cache
        /\ cacheThreads' = [cacheThreads EXCEPT ![t].pc = "store_slot"]
        /\ UNCHANGED <<now, cacheOp>>
        /\ UNCHANGED notCacheThreadVars

\* shaderCacheStoreProgram in thread t: "Find free slot"
CacheStoreFindSlot(t) ==
    LET slot == FreeSlot(cache.entries)
    IN  /\ cacheThreads[t].pc = "store_slot"
        /\ cacheThreads' = [cacheThreads EXCEPT
                              ![t] = IF slot = 0 THEN IdleCacheThread(@.stores)
                                     ELSE [@ EXCEPT !.pc = "store_write", !.slot = slot]]
        /\ UNCHANGED <<cache, now, cacheOp>>
        /\ UNCHANGED notCacheThreadVars

\* shaderCacheStoreProgram in thread t: "Store entry" and the totals
CacheStoreWrite(t) ==
    LET slot == cacheThreads[t].slot
        hash == cacheThreads[t].hash
        length == cacheThreads[t].length
    IN  /\ cacheThreads[t].pc = "store_write"
        /\ \E time \in ClockReads :
             /\ cache' = [cache EXCEPT
                            !.entries[slot] = [hash |-> hash, binaryData |-> hash,
                                               binarySize |-> length, lastUsed |-> time],
                            !.totalSize = @ + length,
                            !.entryCount = IF slot - 1 >= @ THEN slot ELSE @]
             /\ now' = time
        /\ cacheOp' = [NoCacheOp EXCEPT !.op = "store", !.hash = hash, !.length = length,
                                        !.result = TRUE]
        /\ cacheThreads' = [cacheThreads EXCEPT ![t] = IdleCacheThread(@.stores)]
        /\ UNCHANGED notCacheThreadVars

\* thread t enters shaderCacheGetProgram: the hash and shaderCacheFindEntry; a
\* miss returns at once
CacheGetCall(t, vertSource, fragSource) ==
    LET hash == ProgramHash[<<vertSource, fragSource>>]
        slot == shaderCacheFindEntry(cache, hash)
    IN  /\ cacheThreads[t].pc = "idle"
        /\ cache.hits + cache.misses < MaxGets
        /\ cacheOp' = [NoCacheOp EXCEPT !.op = "get", !.hash = hash]
        /\ IF slot = 0 \/ cache.entries[slot].binaryData = 0
           THEN /\ cache' = [cache EXCEPT !.misses = @ + 1]
                /\ UNCHANGED cacheThreads
           ELSE /\ cacheThreads' = [cacheThreads EXCEPT
                                      ![t] = [@ EXCEPT !.pc = "get_use", !.hash = hash,
                                                       !.slot = slot]]
                /\ UNCHANGED cache
        /\ UNCHANGED now
        /\ UNCHANGED notCacheThreadVars

\* shaderCacheGetProgram in thread t: the program is created from the binary
\* of the entry found (linkOk: a program comes back), then the entry is
\* stamped or purged, whatever the slot holds by now
CacheGetUse(t, linkOk) ==
    LET slot == cacheThreads[t].slot
    IN  /\ cacheThreads[t].pc = "get_use"
        /\ IF ~linkOk
           THEN /\ cache' = [cache EXCEPT !.entries[slot] = PurgedEntry(@),
                                          !.misses = @ + 1]
                /\ cacheOp' = [NoCacheOp EXCEPT !.op = "purge", !.hash = cacheThreads[t].hash]
                /\ UNCHANGED now
           ELSE \E time \in ClockReads :
                /\ cache' = [cache EXCEPT !.entries[slot].lastUsed = time, !.hits = @ + 1]
                /\ cacheOp' = [NoCacheOp EXCEPT !.op = "get", !.hash = cacheThreads[t].hash,
                                                !.result = TRUE]
                /\ now' = time
        /\ cacheThreads' = [cacheThreads EXCEPT ![t] = IdleCacheThread(@.stores)]
        /\ UNCHANGED notCacheThreadVars

\* the render thread stores and gets, the background thread stores
NextCacheThreads ==
    \/ \E t \in CacheThreadIds, p \in ThreadPrograms, length \in ThreadBinaryLengths :
            CacheStoreCall(t, p[1], p[2], length)
    \/ \E t \in CacheThreadIds : CacheStoreEvict(t)
    \/ \E t \in CacheThreadIds : CacheStoreFindSlot(t)
    \/ \E t \in CacheThreadIds : CacheStoreWrite(t)
    \/ \E p \in ThreadPrograms : CacheGetCall("render", p[1], p[2])
    \/ \E linkOk \in BOOLEAN : CacheGetUse("render", linkOk)

(***************************************************************************)
(* shader_cache.c: one shaderCacheEvict call, iteration by iteration.      *)
(*                                                                         *)
(* The call is followed from the tables a store can find: slots that are   *)
(* empty, occupied, or purged (hash 0 with the binarySize still in the     *)
(* slot), entryCount at or past the last slot ever written, and totalSize  *)
(* the sum over the slots or more (the bytes of purged entries whose slot  *)
(* was written again stay counted).                                        *)
(***************************************************************************)

\* what one slot of the table can hold when shaderCacheEvict is called:
\* nothing, the rest of a purged entry, or an entry with its size and lastUsed
EvictSlotKinds ==
    {[kind |-> "empty", size |-> 0, lastUsed |-> 0], [kind |-> "purged", size |-> 1, lastUsed |-> 0]}
    \cup {[kind |-> "occupied", size |-> size, lastUsed |-> t] : size \in {1, 3}, t \in 0..MaxClock}

\* slot i holding contents k; the key of an occupied slot is its index
EvictSlotEntry(i, k) ==
    IF k.kind = "occupied"
    THEN [hash |-> i, binaryData |-> i, binarySize |-> k.size, lastUsed |-> k.lastUsed]
    ELSE [EmptyEntry EXCEPT !.binarySize = k.size]

\* binarySize added up over all slots of the table
SlotBytes(entries) ==
    LET RECURSIVE From(_)
        From(i) == IF i > Len(entries) THEN 0 ELSE entries[i].binarySize + From(i + 1)
    IN  From(1)
\* bytes counted in totalSize beyond the sizes in the slots
EvictStaleBytes == {0, 1}
\* bytesNeeded: lengths of a binary, the last one above every budget
EvictBytesNeeded == {1, 3, 200}
\* maxCacheSize
EvictBudgets == {4, 100}

InitEvictLoop ==
    /\ \E kinds \in [1..EvictSlots -> EvictSlotKinds],
          stale \in EvictStaleBytes, bytesNeeded \in EvictBytesNeeded, budget \in EvictBudgets :
          LET entries == [i \in 1..EvictSlots |-> EvictSlotEntry(i, kinds[i])]
              written == {i \in 1..EvictSlots : entries[i] # EmptyEntry}
          IN  evictRun = [pc |-> "test",
                          bytesNeeded |-> bytesNeeded,
                          c |-> [entries |-> entries,
                                 entryCount |-> IF written = {} THEN 0
                                                ELSE CHOOSE i \in written : \A j \in written : j <= i,
                                 totalSize |-> SlotBytes(entries) + stale,
                                 maxCacheSize |-> budget],
                          lruIndex |-> 0,
                          iterations |-> 0,
                          occupiedAtCall |-> Cardinality(Occupied(entries))]
    /\ cache = NullCache
    /\ disk = NoFile
    /\ wrapperCtx = NoCtx
    /\ now = 0
    /\ inits = 0
    /\ cacheOp = NoCacheOp
    /\ cacheThreads = <<>>
    /\ hashOp = NoHashOp

\* what a step of shaderCacheEvict leaves alone
notEvictVars ==
    <<cacheVars, cacheThreads, hashOp, poolVars, threadVars, poolTable, streamVars, batcherVars,
      scalerVars, glFrame>>

\* the condition of the while loop
EvictLoopTest ==
    /\ evictRun.pc = "test"
    /\ evictRun' = [evictRun EXCEPT
                      !.pc = IF /\ evictRun.c.totalSize + evictRun.bytesNeeded > evictRun.c.maxCacheSize
                                /\ evictRun.c.entryCount > 0
                             THEN "scan" ELSE "done"]
    /\ UNCHANGED notEvictVars

\* "Find least recently used", and the break when no slot is occupied
EvictLoopScan ==
    /\ evictRun.pc = "scan"
    /\ LET lruIndex == FindLRU(evictRun.c.entries)
       IN  evictRun' = [evictRun EXCEPT !.lruIndex = lruIndex,
                                        !.pc = IF lruIndex = 0 THEN "done" ELSE "evict"]
    /\ UNCHANGED notEvictVars

\* "Evict": the end of the loop body
EvictLoopEvict ==
    /\ evictRun.pc = "evict"
    /\ evictRun' = [evictRun EXCEPT !.c = EvictSlot(@, evictRun.lruIndex),
                                    !.pc = "test",
                                    !.iterations = @ + 1]
    /\ UNCHANGED notEvictVars

NextEvictLoop ==
    \/ EvictLoopTest
    \/ EvictLoopScan
    \/ EvictLoopEvict

(***************************************************************************)
(* shader_cache.c: the program key as a function of the two source hashes. *)
(***************************************************************************)

\* source hashes the key is computed from: small values, values around the
\* highest bit, and all bits set
SourceHashes ==
    {0, 1, 2, 3, 30, 31, 32, 435, HashMod \div 2, HashMod \div 2 + 1, HashMod \div 2 + 435,
     HashMod - 2, HashMod - 1}

InitHashKey ==
    /\ cache = NullCache
    /\ disk = NoFile
    /\ wrapperCtx = NoCtx
    /\ now = 0
    /\ inits = 0
    /\ cacheOp = NoCacheOp
    /\ cacheThreads = <<>>
    /\ evictRun = NoEvictRun
    /\ \E hv, hf \in SourceHashes : hashOp = [NoHashOp EXCEPT !.vertHash = hv, !.fragHash = hf]

\* the last line of shaderCacheHashProgram for sources that hash to vertHash
\* and fragHash, and for the same two sources swapped
HashProgramBothOrders ==
    /\ hashOp.op = "none"
    /\ hashOp' = [hashOp EXCEPT !.op = "hash",
                                !.key = CombineHashes(hashOp.vertHash, hashOp.fragHash),
                                !.swappedKey = CombineHashes(hashOp.fragHash, hashOp.vertHash)]
    /\ UNCHANGED <<cache, disk, wrapperCtx, now, inits, cacheOp, cacheThreads, evictRun>>
    /\ UNCHANGED <<poolVars, threadVars, poolTable, streamVars, batcherVars, scalerVars, glFrame>>

NextHashKey == HashProgramBothOrders

(***************************************************************************)
(* resolution_scaler.c                                                     *)
(*                                                                         *)
(* Scales and adjustSpeed are held in thousandths (0.25f is 250), frame    *)
(* times in whole milliseconds; avgFrameTime holds the sum of the history  *)
(* ring, that is the average in units of 1/SCALER_HISTORY_SIZE ms.  The    *)
(* frame times fed to the model keep every quotient below exact.           *)
(***************************************************************************)

\* ScalerConfig values passed to resolutionScalerInit: NULL (the defaults of
\* the code) and a caller's configuration with a wider range
DefaultScalerConfig ==
    [enabled |-> TRUE, minScale |-> 500, maxScale |-> 1000, targetFPS |-> 60, adjustSpeed |-> 100]

ScalerConfigs ==
    {DefaultScalerConfig, [DefaultScalerConfig EXCEPT !.minScale = 300, !.maxScale = 1500]}

\* native sizes passed to resolutionScalerInit and resolutionScalerResize
NativeSizes == {<<640, 480>>, <<100, 60>>}
\* frame times passed to resolutionScalerRecordFrameTime
FrameTimes == {10, 20, 1000, 2000}
\* scales passed to resolutionScalerSetScale
ScaleRequests == {100, 750, 3000}

\* quotient truncated toward zero, as the (int) conversion of the code does
TruncDiv(a, b) == IF a >= 0 THEN a \div b ELSE -((-a) \div b)

Abs(x) == IF x < 0 THEN -x ELSE x

\* the sum of the elements of s, value by value: each distinct value times the
\* number of positions that hold it
SumSeq(s) ==
    LET RECURSIVE Over(_)
        Over(values) ==
            IF values = {} THEN 0
            ELSE LET v == CHOOSE x \in values : TRUE
                 IN  v * Cardinality({i \in 1..Len(s) : s[i] = v}) + Over(values \ {v})
    IN  Over({s[i] : i \in 1..Len(s)})

\* one dimension of updateRenderSize: (int)(native * currentScale), rounded up
\* to even, clamped to [64, 2 * native]
\* mutant of RenderDim: no rounding to even
RenderDim_NoEvenRounding(native, scale) ==
    LET raw == TruncDiv(native * scale, 1000)
        low == IF raw < 64 THEN 64 ELSE raw
    IN  IF low > native * 2 THEN native * 2 ELSE low

RenderDim(native, scale) ==
    LET raw == TruncDiv(native * scale, 1000)
        even == ((raw + 1) \div 2) * 2
        low == IF even < 64 THEN 64 ELSE even
    IN  IF low > native * 2 THEN native * 2 ELSE low

\* updateRenderSize: new targets (createFramebuffers) only when a dimension changes
updateRenderSize(s) ==
    LET newWidth == RenderDim(s.nativeWidth, s.currentScale)
        newHeight == RenderDim(s.nativeHeight, s.currentScale)
    IN  IF newWidth # s.renderWidth \/ newHeight # s.renderHeight
        THEN [s EXCEPT !.renderWidth = newWidth, !.renderHeight = newHeight,
                       !.renderFBO = @ + 1, !.scaleChanges = @ + 1]
        ELSE s

\* the context resolutionScalerInit(nativeWidth, nativeHeight, config) builds
NewScaler(size, config) ==
    [config |-> config,
     currentScale |-> config.maxScale,
     nativeWidth |-> size[1],
     nativeHeight |-> size[2],
     renderWidth |-> TruncDiv(size[1] * config.maxScale, 1000),
     renderHeight |-> TruncDiv(size[2] * config.maxScale, 1000),
     \* targetFrameTime = 1000.0f / config.targetFPS, kept as its divisor
     targetFPS |-> config.targetFPS,
     frameTimeHistory |-> [i \in 1..SCALER_HISTORY_SIZE |-> 0],
     historyIndex |-> 0,
     avgFrameTime |-> 0,
     renderFBO |-> 1,
     scaleChanges |-> 0]

\* the variables of the scaler while another subsystem is explored
ScalerUnused ==
    /\ scaler = [config |-> DefaultScalerConfig]
    /\ scalerOp = [op |-> "none"]
    /\ scalerCalls = 0
    /\ glFrame = NoGlFrame

InitScaler ==
    /\ \E size \in NativeSizes, config \in ScalerConfigs : scaler = NewScaler(size, config)
    /\ scalerOp = [op |-> "init"]
    /\ scalerCalls = 0
    /\ glFrame = NoGlFrame

\* mutant of ClampScale: no lower limit
ClampScale_NoLowerLimit(newScale, minScale, maxScale) ==
    IF newScale > maxScale THEN maxScale ELSE newScale

\* "Clamp" of resolutionScalerRecordFrameTime: first to minScale, then to maxScale
ClampScale(newScale, minScale, maxScale) ==
    LET low == IF newScale < minScale THEN minScale ELSE newScale
    IN  IF low > maxScale THEN maxScale ELSE low

\* mutant of ExceedsThresholds: a minimum change of 0.1 instead of 0.01
ExceedsThresholds_MinimumDeltaTenth(devNum, devDen, delta) ==
    Abs(devNum) * 10 > devDen /\ Abs(delta) > 100

\* mutant of ExceedsThresholds: no minimum change of the scale
ExceedsThresholds_NoMinimumDelta(devNum, devDen, delta) == Abs(devNum) * 10 > devDen

\* the two conditions of resolutionScalerRecordFrameTime for a new scale:
\* fabsf(deviation) > SCALER_ADJUST_THRESHOLD for the deviation devNum / devDen,
\* and fabsf(newScale - currentScale) > 0.01f
ExceedsThresholds(devNum, devDen, delta) == Abs(devNum) * 10 > devDen /\ Abs(delta) > 10

\* mutant of ScalerActive: the enabled switch is not looked at
ScalerActive_Always(s) == TRUE

\* the test the frame operations start with: g_scaler->config.enabled
ScalerActive(s) == s.config.enabled

\* the context after resolutionScalerRecordFrameTime(frameTimeMs) on context s
RecordedScaler(s, frameTimeMs) ==
    IF ~ScalerActive(s) THEN s
    ELSE LET history == [s.frameTimeHistory EXCEPT ![s.historyIndex + 1] = frameTimeMs]
             sum == SumSeq(history)
             s1 == [s EXCEPT !.frameTimeHistory = history,
                             !.historyIndex = (@ + 1) % SCALER_HISTORY_SIZE,
                             !.avgFrameTime = sum]
             \* deviation = (avg - target) / target, with avg = sum / SCALER_HISTORY_SIZE
             \* and target = 1000 / targetFPS, as the fraction devNum / devDen
             devNum == sum * s.targetFPS - 1000 * SCALER_HISTORY_SIZE
             devDen == 1000 * SCALER_HISTORY_SIZE
             adjustment == TruncDiv((-devNum) * s.config.adjustSpeed, devDen)
             unclamped == s.currentScale + adjustment
             newScale == ClampScale(unclamped, s.config.minScale, s.config.maxScale)
         IN  IF ExceedsThresholds(devNum, devDen, newScale - s.currentScale)
             THEN updateRenderSize([s1 EXCEPT !.currentScale = newScale])
             ELSE s1

\* what resolutionScalerRecordFrameTime(frameTimeMs) does to the context
RecordFrameTime(frameTimeMs) ==
    /\ scalerCalls' = scalerCalls + 1
    /\ scalerOp' = [op |-> "recordFrameTime"]
    /\ scaler' = RecordedScaler(scaler, frameTimeMs)
    /\ UNCHANGED notScalerVars

\* resolutionScalerRecordFrameTime(frameTimeMs)
ResolutionScalerRecordFrameTime(frameTimeMs) ==
    /\ scalerCalls < MaxScalerCalls
    /\ RecordFrameTime(frameTimeMs)

\* resolutionScalerSetScale(scale)
ResolutionScalerSetScale(scale) ==
    /\ scalerCalls < MaxScalerCalls
    /\ scalerCalls' = scalerCalls + 1
    /\ scalerOp' = [op |-> "setScale"]
    /\ LET low == IF scale < SCALER_MIN_SCALE THEN SCALER_MIN_SCALE ELSE scale
           clamped == IF low > SCALER_MAX_SCALE THEN SCALER_MAX_SCALE ELSE low
       IN  scaler' = updateRenderSize([scaler EXCEPT !.currentScale = clamped])
    /\ UNCHANGED notScalerVars

\* resolutionScalerSetEnabled(enabled)
ResolutionScalerSetEnabled(enabled) ==
    /\ scalerCalls < MaxScalerCalls
    /\ scalerCalls' = scalerCalls + 1
    /\ scalerOp' = [op |-> "setEnabled"]
    /\ scaler' = [scaler EXCEPT !.config.enabled = enabled]
    /\ UNCHANGED notScalerVars

\* resolutionScalerResize(nativeWidth, nativeHeight)
ResolutionScalerResize(size) ==
    /\ scalerCalls < MaxScalerCalls
    /\ scalerCalls' = scalerCalls + 1
    /\ scalerOp' = [op |-> "resize"]
    /\ scaler' = updateRenderSize([scaler EXCEPT !.nativeWidth = size[1], !.nativeHeight = size[2]])
    /\ UNCHANGED notScalerVars

NextScaler ==
    \/ \E frameTimeMs \in FrameTimes : ResolutionScalerRecordFrameTime(frameTimeMs)
    \/ \E scale \in ScaleRequests : ResolutionScalerSetScale(scale)
    \/ \E enabled \in BOOLEAN : ResolutionScalerSetEnabled(enabled)
    \/ \E size \in NativeSizes : ResolutionScalerResize(size)

\* ---- frames: velocityBeginFrame, the draws, then velocityEndFrame and
\* velocitySwapBuffers in either order (velocity_main.c), with
\* resolutionScalerSetEnabled at any point ----

\* configurations of the frames: the default one, and the same one disabled
FrameConfigs == {DefaultScalerConfig, [DefaultScalerConfig EXCEPT !.enabled = FALSE]}
\* frame times glWrapperEndFrame measured, in milliseconds
MeasuredFrameTimes == {10, 2000}

\* phase: "idle" between frames, "rendering" from velocityBeginFrame until both
\* velocityEndFrame (ended) and velocitySwapBuffers (swapped) were called;
\* boundFBO: GL_FRAMEBUFFER binding (0: the default framebuffer); reported:
\* the size velocityBeginFrame got; frameTarget: the target the frame's draws
\* go to (0: none bound by beginFrame); sampled: the target the last upscale
\* pass read; upscales: upscale passes run; atDisable: scale and history when
\* the scaler was last disabled
IdleGlFrame(s) ==
    [phase |-> "idle", ended |-> FALSE, swapped |-> FALSE, boundFBO |-> 0,
     reported |-> <<0, 0>>, frameTarget |-> 0, sampled |-> 0, upscales |-> 0,
     atDisable |-> [currentScale |-> s.currentScale, frameTimeHistory |-> s.frameTimeHistory]]

InitScalerFrame ==
    /\ \E size \in NativeSizes, config \in FrameConfigs :
          /\ scaler = NewScaler(size, config)
          /\ glFrame = IdleGlFrame(NewScaler(size, config))
    /\ scalerOp = [op |-> "init"]
    /\ scalerCalls = 0

\* what a frame call leaves alone
notScalerFrameVars ==
    <<poolVars, threadVars, poolTable, streamVars, batcherVars, cacheVars, cacheThreads, hashOp, evictRun>>

\* velocityBeginFrame: resolutionScalerBeginFrame(&renderWidth, &renderHeight)
VelocityBeginFrame ==
    /\ scalerCalls < MaxFrameCalls
    /\ glFrame.phase = "idle"
    /\ scalerCalls' = scalerCalls + 1
    /\ scalerOp' = [op |-> "beginFrame"]
    /\ glFrame' = IF ScalerActive(scaler)
                  THEN [glFrame EXCEPT !.phase = "rendering", !.ended = FALSE, !.swapped = FALSE,
                                       !.boundFBO = scaler.renderFBO,
                                       !.reported = <<scaler.renderWidth, scaler.renderHeight>>,
                                       !.frameTarget = scaler.renderFBO]
                  ELSE [glFrame EXCEPT !.phase = "rendering", !.ended = FALSE, !.swapped = FALSE,
                                       !.reported = <<scaler.nativeWidth, scaler.nativeHeight>>,
                                       !.frameTarget = 0]
    /\ UNCHANGED scaler
    /\ UNCHANGED notScalerFrameVars

\* velocityEndFrame: resolutionScalerRecordFrameTime(stats.frameTimeMs); new
\* targets are created with createFramebuffers, which leaves the default
\* framebuffer bound
VelocityEndFrame(frameTimeMs) ==
    /\ scalerCalls < MaxFrameCalls
    /\ glFrame.phase = "rendering"
    /\ ~glFrame.ended
    /\ scalerCalls' = scalerCalls + 1
    /\ scalerOp' = [op |-> "recordFrameTime"]
    /\ scaler' = RecordedScaler(scaler, frameTimeMs)
    /\ glFrame' = [glFrame EXCEPT !.ended = TRUE,
                                  !.phase = IF glFrame.swapped THEN "idle" ELSE @,
                                  !.boundFBO = IF scaler'.renderFBO # scaler.renderFBO THEN 0 ELSE @]
    /\ UNCHANGED notScalerFrameVars

\* velocitySwapBuffers: resolutionScalerEndFrame, the upscale pass that
\* samples renderColorTex into the default framebuffer
VelocitySwapBuffers ==
    /\ scalerCalls < MaxFrameCalls
    /\ glFrame.phase = "rendering"
    /\ ~glFrame.swapped
    /\ scalerCalls' = scalerCalls + 1
    /\ scalerOp' = [op |-> "endFrame"]
    /\ glFrame' = IF ScalerActive(scaler)
                  THEN [glFrame EXCEPT !.swapped = TRUE,
                                       !.phase = IF glFrame.ended THEN "idle" ELSE @,
                                       !.boundFBO = 0,
                                       !.sampled = scaler.renderFBO,
                                       !.upscales = @ + 1]
                  ELSE [glFrame EXCEPT !.swapped = TRUE,
                                       !.phase = IF glFrame.ended THEN "idle" ELSE @]
    /\ UNCHANGED scaler
    /\ UNCHANGED notScalerFrameVars

\* resolutionScalerSetEnabled(enabled) between or during frames
FrameSetEnabled(enabled) ==
    /\ scalerCalls < MaxFrameCalls
    /\ scalerCalls' = scalerCalls + 1
    /\ scalerOp' = [op |-> "setEnabled"]
    /\ scaler' = [scaler EXCEPT !.config.enabled = enabled]
    /\ glFrame' = IF scaler.config.enabled /\ ~enabled
                  THEN [glFrame EXCEPT !.atDisable =
                           [currentScale |-> scaler.currentScale,
                            frameTimeHistory |-> scaler.frameTimeHistory]]
                  ELSE glFrame
    /\ UNCHANGED notScalerFrameVars

NextScalerFrame ==
    \/ VelocityBeginFrame
    \/ \E frameTimeMs \in MeasuredFrameTimes : VelocityEndFrame(frameTimeMs)
    \/ VelocitySwapBuffers
    \/ \E enabled \in BOOLEAN : FrameSetEnabled(enabled)

\* ---- a run of slow frames: resolutionScalerInit, then nothing but
\* resolutionScalerRecordFrameTime with the same frame time ----

\* configurations of the run: the scaler enabled, 60 FPS; the default one, a
\* wider range, a range of 0.005, minScale = maxScale, and an adjustSpeed of 0.01
FeedConfigs ==
    {DefaultScalerConfig,
     [DefaultScalerConfig EXCEPT !.minScale = 300, !.maxScale = 1500],
     [DefaultScalerConfig EXCEPT !.minScale = 995],
     [DefaultScalerConfig EXCEPT !.minScale = 1000],
     [DefaultScalerConfig EXCEPT !.adjustSpeed = 10]}
\* the frame time of the run, in milliseconds
FeedFrameTimes == {33}

InitScalerFeed ==
    /\ \E size \in NativeSizes, config \in FeedConfigs : scaler = NewScaler(size, config)
    /\ scalerOp = [op |-> "init"]
    /\ scalerCalls = 0
    /\ glFrame = NoGlFrame

\* the next resolutionScalerRecordFrameTime call of the run
FeedFrameTime(frameTimeMs) ==
    /\ scalerCalls < FeedSamples
    /\ RecordFrameTime(frameTimeMs)

NextScalerFeed == \E frameTimeMs \in FeedFrameTimes : FeedFrameTime(frameTimeMs)

\* ---- an endless run of slow frames: resolutionScalerInit, then
\* resolutionScalerRecordFrameTime for ever, every call with the frame time
\* the run started with ----

\* frame times of such a run, in milliseconds: each keeps the rolling average
\* more than 10% above the target of 60 FPS from the first call on
SlowFrameTimes == {1200, 1320}
\* configurations of the run: the default one, and an adjustSpeed of 0
SlowConfigs == {DefaultScalerConfig, [DefaultScalerConfig EXCEPT !.adjustSpeed = 0]}
\* the surface of the run
SlowNativeSizes == {<<640, 480>>}

\* scalerOp.frameTimeMs is the frame time of the run
InitScalerSlow ==
    /\ \E size \in SlowNativeSizes, config \in SlowConfigs : scaler = NewScaler(size, config)
    /\ \E frameTimeMs \in SlowFrameTimes : scalerOp = [op |-> "init", frameTimeMs |-> frameTimeMs]
    /\ scalerCalls = 0
    /\ glFrame = NoGlFrame

\* the next resolutionScalerRecordFrameTime call of the run; scalerCalls
\* counts the calls up to FeedSamples, a full history
SlowFrameTime ==
    /\ \E recorded \in {RecordedScaler(scaler, scalerOp.frameTimeMs)} :
          \* the rolling average is more than 10% above targetFrameTime
          /\ (recorded.avgFrameTime * recorded.targetFPS - 1000 * SCALER_HISTORY_SIZE) * 10
                > 1000 * SCALER_HISTORY_SIZE
          /\ scaler' = recorded
    /\ scalerOp' = [op |-> "recordFrameTime", frameTimeMs |-> scalerOp.frameTimeMs]
    /\ scalerCalls' = IF scalerCalls < FeedSamples THEN scalerCalls + 1 ELSE scalerCalls
    /\ UNCHANGED notScalerVars

NextScalerSlow == SlowFrameTime

(***************************************************************************)
(* Specifications.                                                         *)
(***************************************************************************)
InitSpecPool ==
    /\ InitPool
    /\ StreamUnused
    /\ BatcherUnused
    /\ CacheUnused
    /\ ScalerUnused

SpecPool == InitSpecPool /\ [][NextPool]_vars

InitSpecPoolThreads ==
    /\ InitPoolThreads
    /\ StreamUnused
    /\ BatcherUnused
    /\ CacheUnused
    /\ ScalerUnused

SpecPoolThreads == InitSpecPoolThreads /\ [][NextPoolThreads]_vars

InitSpecPoolCreate ==
    /\ InitPoolCreate
    /\ StreamUnused
    /\ BatcherUnused
    /\ CacheUnused
    /\ ScalerUnused

SpecPoolCreate == InitSpecPoolCreate /\ [][NextPoolCreate]_vars

InitSpecStream ==
    /\ InitStream
    /\ PoolUnused
    /\ BatcherUnused
    /\ CacheUnused
    /\ ScalerUnused

SpecStream == InitSpecStream /\ [][NextStream]_vars

InitSpecBatcher ==
    /\ InitBatcher
    /\ StreamUnused
    /\ PoolUnused
    /\ CacheUnused
    /\ ScalerUnused

SpecBatcher == InitSpecBatcher /\ [][NextBatcher]_vars

InitSpecCache ==
    /\ InitCache
    /\ StreamUnused
    /\ PoolUnused
    /\ BatcherUnused
    /\ ScalerUnused

SpecCache == InitSpecCache /\ [][NextCache]_vars

InitSpecCacheDisk ==
    /\ InitCacheDisk
    /\ StreamUnused
    /\ PoolUnused
    /\ BatcherUnused
    /\ ScalerUnused

SpecCacheDisk == InitSpecCacheDisk /\ [][NextCacheDisk]_vars

InitSpecCacheThreads ==
    /\ InitCacheThreads
    /\ StreamUnused
    /\ PoolUnused
    /\ BatcherUnused
    /\ ScalerUnused

SpecCacheThreads == InitSpecCacheThreads /\ [][NextCacheThreads]_vars

InitSpecEvictLoop ==
    /\ InitEvictLoop
    /\ StreamUnused
    /\ PoolUnused
    /\ BatcherUnused
    /\ ScalerUnused

\* a call that has been entered keeps running: its next step is taken
SpecEvictLoop == InitSpecEvictLoop /\ [][NextEvictLoop]_vars /\ WF_vars(NextEvictLoop)

InitSpecHashKey ==
    /\ InitHashKey
    /\ StreamUnused
    /\ PoolUnused
    /\ BatcherUnused
    /\ ScalerUnused

SpecHashKey == InitSpecHashKey /\ [][NextHashKey]_vars

InitSpecScaler ==
    /\ InitScaler
    /\ StreamUnused
    /\ PoolUnused
    /\ BatcherUnused
    /\ CacheUnused

SpecScaler == InitSpecScaler /\ [][NextScaler]_vars

InitSpecScalerFrame ==
    /\ InitScalerFrame
    /\ PoolUnused
    /\ StreamUnused
    /\ BatcherUnused
    /\ CacheUnused

SpecScalerFrame == InitSpecScalerFrame /\ [][NextScalerFrame]_vars

InitSpecScalerFeed ==
    /\ InitScalerFeed
    /\ StreamUnused
    /\ PoolUnused
    /\ BatcherUnused
    /\ CacheUnused

SpecScalerFeed == InitSpecScalerFeed /\ [][NextScalerFeed]_vars

InitSpecScalerSlow ==
    /\ InitScalerSlow
    /\ StreamUnused
    /\ PoolUnused
    /\ BatcherUnused
    /\ CacheUnused

\* the application records a frame time at the end of every frame
\* (velocityEndFrame), so the run never stops: weak fairness of the call
SpecScalerSlow == InitSpecScalerSlow /\ [][NextScalerSlow]_vars /\ WF_vars(NextScalerSlow)

(***************************************************************************)
(* Claims about the draw batcher (checked under SpecBatcher).              *)
(***************************************************************************)

\* C4: when drawBatcherEndFrame has returned, every command submitted since
\* drawBatcherBeginFrame has been issued to the GL draw call exactly once
\* (implicit flushes on a full buffer included) and the command buffer is empty.
C4_EveryCommandIssuedOnce ==
    frame.phase = "ended" =>
        /\ \A id \in 1..frame.submitted : frame.issued[id] = 1
        /\ batcher.commands = <<>>

\* C9: in every batch a flush executes, the commands run for that batch have
\* pairwise the same BatchKey (all six fields) and the same command type.
C9_BatchGroupingSound ==
    \A r \in 1..Len(lastFlush) :
        \A i, j \in 1..Len(lastFlush[r].cmds) :
            /\ batchKeysEqual(lastFlush[r].cmds[i].key, lastFlush[r].cmds[j].key)
            /\ lastFlush[r].cmds[i].type = lastFlush[r].cmds[j].type

\* C9 witness: a flush that built several batches, one of them a merged run of
\* at least two commands, from a buffer holding two command types.
C9_Witness ==
    /\ Len(lastFlush) >= 2
    /\ \E r \in 1..Len(lastFlush) : lastFlush[r].multi /\ Len(lastFlush[r].cmds) >= 2
    /\ \E r, q \in 1..Len(lastFlush) : lastFlush[r].cmds[1].type # lastFlush[q].cmds[1].type

\* C18: when drawBatcherEndFrame has returned, the frame's counters satisfy
\* drawCallsSaved = drawCallsSubmitted - drawCallsExecuted.
C18_SavedIsSubmittedMinusExecuted ==
    frame.phase = "ended" =>
        batcher.drawCallsSaved = batcher.drawCallsSubmitted - batcher.drawCallsExecuted

\* the positions of the scanned buffer where a maximal run of commands with
\* identical key and type starts, and the length of the run starting at i
RunStarts(cmds) ==
    {i \in 1..Len(cmds) :
        i = 1 \/ ~(/\ batchKeysEqual(cmds[i - 1].key, cmds[i].key)
                   /\ cmds[i - 1].type = cmds[i].type)}
RunLength(cmds, i) ==
    LET later == {j \in RunStarts(cmds) : j > i} \cup {Len(cmds) + 1}
    IN  (CHOOSE j \in later : \A k \in later : j <= k) - i

\* n - 1 for every run of n >= minBatchSize commands, from the runs starting in S
RECURSIVE SavedByRuns(_, _, _)
SavedByRuns(cmds, S, minBatchSize) ==
    IF S = {} THEN 0
    ELSE LET i == CHOOSE x \in S : TRUE
             n == RunLength(cmds, i)
         IN  (IF n >= minBatchSize THEN n - 1 ELSE 0)
             + SavedByRuns(cmds, S \ {i}, minBatchSize)

\* a step that flushes a non-empty command buffer: drawBatcherEndFrame, or a
\* submit that found the buffer full
IsFlush ==
    /\ batcher.commands # <<>>
    /\ \/ frame.phase = "open" /\ frame'.phase = "ended"
       \/ /\ frame'.submitted = frame.submitted + 1
          /\ Len(batcher.commands) >= batcher.maxCommands

\* C19: a flush with batching enabled adds n - 1 to drawCallsSaved for each run
\* of n >= minBatchSize commands with identical key and type in the scanned
\* buffer and nothing for shorter runs; with batching disabled it adds nothing.
C19_SavedCountsMergedRuns ==
    [][IsFlush =>
         batcher'.drawCallsSaved - batcher.drawCallsSaved =
            IF batcher.enableBatching
            THEN SavedByRuns(frame'.sorted, RunStarts(frame'.sorted), batcher.minBatchSize)
            ELSE 0
      ]_vars

\* C20: commands of an instanced type (canBatch = FALSE) are never executed
\* through the merged-batch path, so they add nothing to drawCallsSaved.
C20_InstancedNeverMerged ==
    \A r \in 1..Len(lastFlush) :
        lastFlush[r].multi =>
            \A k \in 1..Len(lastFlush[r].cmds) :
                /\ lastFlush[r].cmds[k].canBatch
                /\ lastFlush[r].cmds[k].type
                        \notin {"DRAW_CMD_ARRAYS_INSTANCED", "DRAW_CMD_ELEMENTS_INSTANCED"}


\* C26: in a flush with batching enabled, all commands of the buffer that
\* have the same BatchKey and the same command type are in one single maximal
\* run of the scanned buffer (one batch), whatever the submission order, the
\* other commands in the buffer and the order the sort leaves ties in.
C26_SamePairOneBatch ==
    [][(IsFlush /\ batcher.enableBatching) =>
         \A i, j \in RunStarts(frame'.sorted) :
             (/\ batchKeysEqual(frame'.sorted[i].key, frame'.sorted[j].key)
              /\ frame'.sorted[i].type = frame'.sorted[j].type) => i = j
      ]_vars

(***************************************************************************)
(* Claims about the shader cache (checked under SpecCache, the in-memory   *)
(* cache of one process, and SpecCacheDisk, runs sharing a cache file).    *)
(***************************************************************************)

\* the keys held by the occupied slots
CachedKeys(c) == {c.entries[i].hash : i \in Occupied(c.entries)}

\* the bytes held by the occupied slots
RECURSIVE CachedBytesFrom(_, _)
CachedBytesFrom(entries, i) ==
    IF i > Len(entries) THEN 0
    ELSE (IF entries[i].hash # 0 THEN entries[i].binarySize ELSE 0) + CachedBytesFrom(entries, i + 1)

CachedBytes(c) == CachedBytesFrom(c.entries, 1)

\* C5: after a shaderCacheStoreProgram call the bytes held by the cache are at
\* most maxCacheSize and the occupied slots are at most maxEntries.
C5_CacheWithinLimits ==
    cacheOp.op = "store" =>
        /\ CachedBytes(cache) <= cache.maxCacheSize
        /\ cache.totalSize <= cache.maxCacheSize
        /\ Cardinality(Occupied(cache.entries)) <= cache.maxEntries

\* C6: a store of a new program into a table whose maxEntries slots are all
\* occupied, with room left in the byte budget, evicts exactly one entry, one
\* with the oldest lastUsed, and leaves the new program cached.
C6_FullTableEvictsOldest ==
    [][(/\ cacheOp'.op = "store"
        /\ cacheOp'.length > 0
        /\ cacheOp'.hash \notin CachedKeys(cache)
        /\ Cardinality(Occupied(cache.entries)) = cache.maxEntries
        /\ cache.totalSize + cacheOp'.length <= cache.maxCacheSize)
       => (/\ cacheOp'.hash \in CachedKeys(cache')
           /\ \E victim \in Occupied(cache.entries) :
                /\ \A s \in Occupied(cache.entries) :
                        cache.entries[victim].lastUsed <= cache.entries[s].lastUsed
                /\ CachedKeys(cache') =
                        (CachedKeys(cache) \ {cache.entries[victim].hash}) \cup {cacheOp'.hash})
      ]_vars

\* the bytes of the first n slots a store evicted
RECURSIVE EvictedBytes(_, _, _)
EvictedBytes(entries, evicted, n) ==
    IF n = 0 THEN 0
    ELSE entries[evicted[n]].binarySize + EvictedBytes(entries, evicted, n - 1)

RuntimeVendorHash(ctx) == IF ctx.present THEN shaderCacheHashSource(ctx.rendererString) ELSE 0
RuntimeDriverHash(ctx) == IF ctx.present THEN shaderCacheHashSource(ctx.versionString) ELSE 0

HeaderMismatch(file, ctx) ==
    \/ file.magic # SHADER_CACHE_MAGIC
    \/ file.version # SHADER_CACHE_VERSION
    \/ file.gpuVendorHash # RuntimeVendorHash(ctx)
    \/ file.driverVersionHash # RuntimeDriverHash(ctx)

\* C10: when shaderCacheLoadFromDisk (called by shaderCacheInit or directly)
\* reads a file whose magic, version, vendor hash or driver hash differs from
\* the running process's value, no entry is loaded, and shaderCacheInit still
\* returns an initialised cache.
C10_MismatchLoadsNothing ==
    [][(/\ cacheOp'.op \in {"init", "load"}
        /\ cache'.diskCacheEnabled
        /\ disk.exists
        /\ HeaderMismatch(disk, wrapperCtx'))
       => (/\ Occupied(cache'.entries) = {}
           /\ cache'.entryCount = 0
           /\ cache'.initialized)
      ]_vars

\* the {hash -> binary} pairs of a table and of a cache file (binaryData
\* identifies the binary: its format and its bytes)
CachedPairs(c) ==
    {<<c.entries[i].hash, c.entries[i].binaryData, c.entries[i].binarySize>> :
        i \in Occupied(c.entries)}
FilePairs(file) ==
    {<<file.entries[i].sourceHash, file.entries[i].binaryData, file.entries[i].binarySize>> :
        i \in 1..Len(file.entries)}

C11_SaveInitRoundTrip ==
    [][(/\ cacheOp'.op = "init"
        /\ cache'.diskCacheEnabled
        /\ disk.exists
        /\ ~HeaderMismatch(disk, wrapperCtx'))
       => CachedPairs(cache') = FilePairs(disk)
      ]_vars

(***************************************************************************)
(* Claims about two threads creating pools (checked under SpecPoolCreate). *)
(***************************************************************************)

\* the pool indices returned so far, without the -1 of refused calls
ReturnedIndices == SelectSeq(poolTable.returned, LAMBDA r : r # -1)

\* C37: under concurrent bufferPoolCreate calls from two threads, poolCount
\* never exceeds MAX_BUFFER_POOLS, no pool slot beyond index 7 is written,
\* and two creates never return the same pool index.
C37_ConcurrentCreatesStayInTable ==
    /\ poolTable.poolCount <= MAX_BUFFER_POOLS
    /\ \A i \in poolTable.written : i <= MAX_BUFFER_POOLS - 1
    /\ \A i, j \in 1..Len(ReturnedIndices) :
          i # j => ReturnedIndices[i] # ReturnedIndices[j]

(***************************************************************************)
(* Claims about two threads on the cache (checked under SpecCacheThreads). *)
(***************************************************************************)

\* thread t is between the entry and the return of a cache call
InCacheCall(t) == cacheThreads[t].pc # "idle"

\* C24: under any interleaving of shaderCacheStoreProgram calls of a
\* background thread with shaderCacheGetProgram / shaderCacheStoreProgram
\* calls of the render thread, each call is atomic with respect to the others
\* (no call runs while another is between its entry and its return); two
\* stores under way never hold the same free slot, no key is in two slots, and
\* the entry a get is about to use still holds the key the get looked up.
C24_CacheCallsAtomic ==
    /\ \A t, u \in CacheThreadIds : (InCacheCall(t) /\ InCacheCall(u)) => t = u
    /\ \A t, u \in CacheThreadIds :
          (/\ cacheThreads[t].pc = "store_write"
           /\ cacheThreads[u].pc = "store_write"
           /\ cacheThreads[t].slot = cacheThreads[u].slot) => t = u
    /\ \A i, j \in Occupied(cache.entries) :
          cache.entries[i].hash = cache.entries[j].hash => i = j
    /\ \A t \in CacheThreadIds :
          cacheThreads[t].pc = "get_use" =>
              cache.entries[cacheThreads[t].slot].hash = cacheThreads[t].hash

\* the binarySize of the occupied slots (hash # 0) of the table, added up
OccupiedBytes(c) ==
    LET RECURSIVE From(_)
        From(i) == IF i > Len(c.entries) THEN 0
                   ELSE (IF i \in Occupied(c.entries) THEN c.entries[i].binarySize ELSE 0)
                        + From(i + 1)
    IN  From(1)

\* C34: after any sequence of store, get (with the purge of an entry whose
\* binary fails to load), eviction and clear, totalSize of the cache equals
\* the sum of binarySize over the occupied slots.
C34_TotalSizeIsSumOfEntries ==
    cache.allocated => cache.totalSize = OccupiedBytes(cache)

\* no two occupied slots of the table hold the same key
NoDuplicateKeys(c) ==
    \A i, j \in Occupied(c.entries) : i # j => c.entries[i].hash # c.entries[j].hash

\* C39: shaderCacheStoreProgram for a key that is already cached leaves the
\* cache unchanged (entries with their lastUsed, totalSize, occupancy), so
\* repeated stores change nothing more and the cache never holds two entries
\* with the same non-zero key.
C39_StoreOfCachedKeyChangesNothing ==
    [][/\ (cacheOp'.op = "store" /\ cacheOp'.hash \in CachedKeys(cache)) => cache' = cache
       /\ cache'.allocated => NoDuplicateKeys(cache')
      ]_vars

\* C39 witness: a program was stored a second time while it was cached with
\* another one, and the call returned without storing.
C39_Witness ==
    /\ cacheOp.op = "store"
    /\ ~cacheOp.result
    /\ cacheOp.hash \in CachedKeys(cache)
    /\ Cardinality(Occupied(cache.entries)) = 2

(***************************************************************************)
(* Claims about the eviction loop (checked under SpecEvictLoop).           *)
(***************************************************************************)

\* C40: shaderCacheEvict always terminates: every iteration of its loop
\* either empties one occupied slot or leaves the loop, also when the bytes
\* needed exceed maxCacheSize or totalSize is larger than the sum over the
\* occupied slots.
C40_EvictTerminates ==
    /\ <>(evictRun.pc = "done")
    /\ [][/\ evictRun.pc = "scan" =>
               \/ evictRun'.pc = "done"
               \/ evictRun'.pc = "evict" /\ evictRun'.lruIndex \in Occupied(evictRun.c.entries)
          /\ evictRun.pc = "evict" =>
               Cardinality(Occupied(evictRun'.c.entries))
                  = Cardinality(Occupied(evictRun.c.entries)) - 1
          /\ evictRun'.iterations <= evictRun'.occupiedAtCall
         ]_vars

\* C40 witness: a call that needed more bytes than maxCacheSize, on a table
\* whose totalSize was larger than the sum over its occupied slots, has
\* emptied all three slots and returned.
C40_Witness ==
    /\ evictRun.pc = "done"
    /\ evictRun.bytesNeeded > evictRun.c.maxCacheSize
    /\ evictRun.iterations = EvictSlots
    /\ evictRun.c.totalSize > 0
    /\ Occupied(evictRun.c.entries) = {}

(***************************************************************************)
(* Claims about the statistics of the cache (checked under SpecCache).     *)
(***************************************************************************)

\* C28: no cache operation resets or decreases the hit or the miss counter:
\* a get with valid arguments adds one to exactly one of the two, and every
\* other operation (store with its eviction, clear) leaves both as they were.
C28_CountersOnlyGrowByGets ==
    [][(cache.allocated /\ cache'.allocated) =>
         IF cacheOp'.op \in {"get", "purge"}
         THEN \/ cache'.hits = cache.hits + 1 /\ cache'.misses = cache.misses
              \/ cache'.hits = cache.hits /\ cache'.misses = cache.misses + 1
         ELSE cache'.hits = cache.hits /\ cache'.misses = cache.misses]_vars

(***************************************************************************)
(* Claims about the program key (checked under SpecHashKey).               *)
(***************************************************************************)

\* C27: for all source hashes hv # hf the program key hv XOR (hf * 31),
\* computed in the width of the hash, differs from hf XOR (hv * 31): swapping
\* the vertex and fragment sources always gives a different cache key.
C27_SwapChangesKey ==
    (hashOp.op = "hash" /\ hashOp.vertHash # hashOp.fragHash) => hashOp.key # hashOp.swappedKey

(***************************************************************************)
(* Claims about the resolution scaler (checked under SpecScaler).          *)
(***************************************************************************)

\* C8: after resolutionScalerInit and any resolutionScalerRecordFrameTime and
\* resolutionScalerSetScale calls, currentScale lies in the configured range
\* [config.minScale, config.maxScale].
C8_ScaleWithinConfiguredRange ==
    /\ scaler.config.minScale <= scaler.currentScale
    /\ scaler.currentScale <= scaler.config.maxScale

\* the deviation of the rolling average of s from the target frame time, as
\* the numerator over the denominator 1000 * SCALER_HISTORY_SIZE
DeviationNum(s) == s.avgFrameTime * s.targetFPS - 1000 * SCALER_HISTORY_SIZE

\* the scale resolutionScalerRecordFrameTime would move to from currentScale
\* before, given the rolling average of after
ClampedNewScale(before, after) ==
    ClampScale(before.currentScale
                 + TruncDiv((-DeviationNum(after)) * before.config.adjustSpeed,
                            1000 * SCALER_HISTORY_SIZE),
               before.config.minScale, before.config.maxScale)

\* C29: resolutionScalerRecordFrameTime leaves currentScale, the render
\* dimensions and the offscreen target unchanged whenever the deviation of
\* the rolling average from the target is at most 0.1, or the clamped new
\* scale differs from currentScale by less than 0.01.
C29_SmallChangesIgnored ==
    [][(/\ scalerOp'.op = "recordFrameTime"
        /\ scaler.config.enabled
        /\ \/ Abs(DeviationNum(scaler')) * 10 <= 1000 * SCALER_HISTORY_SIZE
           \/ Abs(ClampedNewScale(scaler, scaler') - scaler.currentScale) < 10)
       => /\ scaler'.currentScale = scaler.currentScale
          /\ scaler'.renderWidth = scaler.renderWidth
          /\ scaler'.renderHeight = scaler.renderHeight
          /\ scaler'.renderFBO = scaler.renderFBO
          /\ scaler'.scaleChanges = scaler.scaleChanges
      ]_vars

\* C29 witness: a frame time has been recorded that brought the rolling
\* average within 10% of the target, while the scale is inside its range and
\* away from both limits by more than 0.01.
C29_Witness ==
    /\ scalerOp.op = "recordFrameTime"
    /\ scaler.config.enabled
    /\ Abs(DeviationNum(scaler)) * 10 <= 1000 * SCALER_HISTORY_SIZE
    /\ scaler.avgFrameTime > 0
    /\ scaler.currentScale > scaler.config.minScale + 10
    /\ scaler.currentScale < scaler.config.maxScale - 10

\* native * scale truncated, rounded up to even and clamped to [64, 2 * native]
EvenClamped(native, scale) ==
    LET truncated == (native * scale) \div 1000
        even == truncated + (truncated % 2)
    IN  IF even < 64 THEN 64 ELSE IF even > 2 * native THEN 2 * native ELSE even

\* the step is a call that recomputes the render size: setScale, resize, or a
\* recordFrameTime that assigned a new scale
RecomputesRenderSize ==
    \/ scalerOp'.op \in {"setScale", "resize"}
    \/ scalerOp'.op = "recordFrameTime" /\ scaler'.currentScale # scaler.currentScale

\* C30: after any recordFrameTime, setScale or resize call that recomputes the
\* render size, renderWidth and renderHeight are native * currentScale
\* truncated, rounded up to even and clamped to [64, 2 * native], and the
\* offscreen target is created anew, with scaleChanges one higher, exactly
\* when that pair differs from the render dimensions before the call.
C30_RenderSizeRule ==
    [][RecomputesRenderSize =>
         /\ scaler'.renderWidth = EvenClamped(scaler'.nativeWidth, scaler'.currentScale)
         /\ scaler'.renderHeight = EvenClamped(scaler'.nativeHeight, scaler'.currentScale)
         /\ IF <<scaler'.renderWidth, scaler'.renderHeight>>
                 # <<scaler.renderWidth, scaler.renderHeight>>
            THEN /\ scaler'.scaleChanges = scaler.scaleChanges + 1
                 /\ scaler'.renderFBO # scaler.renderFBO
            ELSE /\ scaler'.scaleChanges = scaler.scaleChanges
                 /\ scaler'.renderFBO = scaler.renderFBO
      ]_vars

\* C30 witness: a recordFrameTime call has lowered the scale to a value for
\* which the truncated width is odd, and the target has been created again.
C30_Witness ==
    /\ scalerOp.op = "recordFrameTime"
    /\ scaler.currentScale < scaler.config.maxScale
    /\ ((scaler.nativeWidth * scaler.currentScale) \div 1000) % 2 = 1
    /\ scaler.renderWidth = (scaler.nativeWidth * scaler.currentScale) \div 1000 + 1
    /\ scaler.renderWidth > 64
    /\ scaler.scaleChanges > 0

(***************************************************************************)
(* Claims about frames (checked under SpecScalerFrame).                    *)
(***************************************************************************)

\* C31: while the controller is disabled, beginFrame reports the native
\* dimensions without binding the offscreen target, endFrame runs no upscale
\* pass, and recordFrameTime changes neither the frame-time history nor
\* currentScale; re-enabling resumes with the scale and the history as they
\* were when it was disabled.
C31_DisabledScalerIsInert ==
    [][~scaler.config.enabled =>
         /\ scalerOp'.op = "beginFrame" =>
               /\ glFrame'.reported = <<scaler.nativeWidth, scaler.nativeHeight>>
               /\ glFrame'.boundFBO = glFrame.boundFBO
               /\ glFrame'.frameTarget = 0
         /\ scalerOp'.op = "endFrame" =>
               /\ glFrame'.upscales = glFrame.upscales
               /\ glFrame'.sampled = glFrame.sampled
               /\ glFrame'.boundFBO = glFrame.boundFBO
         /\ scalerOp'.op \in {"beginFrame", "endFrame", "recordFrameTime"} => scaler' = scaler
         /\ (scalerOp'.op = "setEnabled" /\ scaler'.config.enabled) =>
               /\ scaler'.currentScale = glFrame.atDisable.currentScale
               /\ scaler'.frameTimeHistory = glFrame.atDisable.frameTimeHistory
               /\ [scaler' EXCEPT !.config.enabled = FALSE] = scaler
      ]_vars

\* C31 witness: the scaler was enabled again after a frame went by while it
\* was disabled, at the scale a slow frame had lowered it to before.
C31_Witness ==
    /\ scalerOp.op = "setEnabled"
    /\ scaler.config.enabled
    /\ scaler.currentScale < scaler.config.maxScale
    /\ scaler.currentScale = glFrame.atDisable.currentScale
    /\ glFrame.reported = <<scaler.nativeWidth, scaler.nativeHeight>>
    /\ glFrame.phase = "idle"
    /\ glFrame.upscales = 1

\* C35: whatever the order of velocityEndFrame and velocitySwapBuffers after
\* a frame's draws, the offscreen colour target the upscale pass samples is
\* the target resolutionScalerBeginFrame bound for the rendering of that
\* frame: it is not deleted and created anew in between.
C35_UpscaleSamplesRenderedTarget ==
    [][(/\ scalerOp'.op = "endFrame"
        /\ glFrame'.upscales = glFrame.upscales + 1
        /\ glFrame.frameTarget # 0)
       => glFrame'.sampled = glFrame.frameTarget
      ]_vars

(***************************************************************************)
(* Claims about a run of slow frames (checked under SpecScalerFeed).       *)
(***************************************************************************)

\* C22 as stated: over 60 consecutive recordFrameTime(33 ms) calls from the
\* initial state, with the scaler enabled and a target of 60 FPS, currentScale
\* never increases from one call to the next, is never below minScale, and
\* after the 60th call is lower than initially whenever minScale < maxScale.
C22_SlowFramesLowerScale ==
    [][/\ scaler'.currentScale <= scaler.currentScale
       /\ scaler'.currentScale >= scaler'.config.minScale
       /\ (scalerCalls' = 60 /\ scaler'.config.minScale < scaler'.config.maxScale)
             => scaler'.currentScale < scaler'.config.maxScale
      ]_vars

\* the deviation of a full history of 33 ms frames from the target, times
\* adjustSpeed: the largest step of the run, in thousandths
FullDeviationStep(s) ==
    TruncDiv((33 * s.targetFPS - 1000) * s.config.adjustSpeed, 1000)

\* C22: over 60 consecutive recordFrameTime(33 ms) calls from the initial
\* state, with the scaler enabled and a target of 60 FPS, currentScale never
\* increases from one call to the next, is never below minScale, and after the
\* 60th call is lower than initially whenever the scale can move by more than
\* 0.01: maxScale - minScale > 0.01 and 0.98 * adjustSpeed > 0.01.  If not,
\* currentScale still has its initial value after the 60th call.
C22_SlowFramesLowerScaleIfItCanMove ==
    [][/\ scaler'.currentScale <= scaler.currentScale
       /\ scaler'.currentScale >= scaler'.config.minScale
       /\ scalerCalls' = 60 =>
             IF /\ scaler'.config.maxScale - scaler'.config.minScale > 10
                /\ FullDeviationStep(scaler') > 10
             THEN scaler'.currentScale < scaler'.config.maxScale
             ELSE scaler'.currentScale = scaler'.config.maxScale
      ]_vars

\* C22 witness: the 60th slow frame has been recorded and the scale has come
\* down from its initial value to minScale.
C22_Witness ==
    /\ scalerCalls = 60
    /\ scaler.historyIndex = 0
    /\ \A i \in 1..SCALER_HISTORY_SIZE : scaler.frameTimeHistory[i] = 33
    /\ scaler.currentScale < scaler.config.maxScale
    /\ scaler.currentScale = scaler.config.minScale
    /\ scaler.scaleChanges > 0

\* C38 as stated: if the scaler is enabled and every recorded frame time keeps
\* the rolling average more than 10% above targetFrameTime, currentScale
\* eventually equals config.minScale and then stays there.
C38_SlowFramesReachMinScale ==
    <>[](scaler.currentScale = scaler.config.minScale)

\* the deviation of a full history of the run's frame time from the target,
\* times adjustSpeed: the step of the run once the history is full, in
\* thousandths
SaturatedStep ==
    ((scalerOp.frameTimeMs * scaler.targetFPS - 1000) * scaler.config.adjustSpeed) \div 1000

\* C38: if the scaler is enabled, every recorded frame time keeps the rolling
\* average more than 10% above targetFrameTime, and deviation * adjustSpeed
\* is larger than 0.01 once the history is full, currentScale eventually stays
\* at one value that is at least minScale and at most minScale + 0.01; a last
\* distance of 0.01 or less to minScale is never covered.
C38_SlowFramesSettleNearMinScale ==
    <>[](\A s \in {scaler} :
            SaturatedStep > 10 =>
                /\ s.currentScale >= s.config.minScale
                /\ s.currentScale <= s.config.minScale + 10)

\* C38 witness: the history is full of slow frames, every further call would
\* lower the scale by more than 0.01, and the scale rests above minScale.
C38_Witness ==
    /\ scalerOp.op = "recordFrameTime"
    /\ scalerCalls = FeedSamples
    /\ \A i \in 1..SCALER_HISTORY_SIZE : scaler.frameTimeHistory[i] = scalerOp.frameTimeMs
    /\ SaturatedStep > 10
    /\ scaler.config.minScale < scaler.config.maxScale - 10
    /\ scaler.currentScale > scaler.config.minScale
    /\ scaler.currentScale <= scaler.config.minScale + 10
    /\ RecordedScaler(scaler, scalerOp.frameTimeMs).currentScale = scaler.currentScale

=============================================================================
